---- MODULE Spec2Model ----
(***************************************************************************)
(* Model of the chrome-bitcoin-prices extension: the price scanner, the    *)
(* rate provider, the tree rewriter and the content-script entry points.   *)
(*                                                                         *)
(* The repository holds three variants of the content script:              *)
(*   "A"  src/scripts/background.js lines 110-443  (init, fetchWithBackoff)*)
(*   "B"  src/scripts/background.js lines 446-661  (guarded main block)    *)
(*   "C"  src/scripts/content.js                   (window.onload)         *)
(* The variable `variant` says which one is loaded.  It also holds two     *)
(* variants of the background script:                                      *)
(*   "A"  src/scripts/background.js lines 1-107    (tabs.onUpdated injects)*)
(*   "B"  src/unnamed/part_000         (webNavigation.onCompleted injects) *)
(* The variable `background` says which one is loaded.                     *)
(*                                                                         *)
(* A string is a tuple of one-character strings.                           *)
(***************************************************************************)
EXTENDS Integers, Sequences, FiniteSets, TLC

(***************************************************************************)
(* Characters                                                              *)
(***************************************************************************)
Digits == {"0", "1", "2", "3", "4", "5", "6", "7", "8", "9"}

LowerLetters ==
    {"a", "b", "c", "d", "e", "f", "g", "h", "i", "j", "k", "l", "m",
     "n", "o", "p", "q", "r", "s", "t", "u", "v", "w", "x", "y", "z"}

UpperOf ==
    [c \in LowerLetters |->
        CASE c = "a" -> "A" [] c = "b" -> "B" [] c = "c" -> "C" [] c = "d" -> "D"
          [] c = "e" -> "E" [] c = "f" -> "F" [] c = "g" -> "G" [] c = "h" -> "H"
          [] c = "i" -> "I" [] c = "j" -> "J" [] c = "k" -> "K" [] c = "l" -> "L"
          [] c = "m" -> "M" [] c = "n" -> "N" [] c = "o" -> "O" [] c = "p" -> "P"
          [] c = "q" -> "Q" [] c = "r" -> "R" [] c = "s" -> "S" [] c = "t" -> "T"
          [] c = "u" -> "U" [] c = "v" -> "V" [] c = "w" -> "W" [] c = "x" -> "X"
          [] c = "y" -> "Y" [] c = "z" -> "Z"]

UpperLetters == {UpperOf[c] : c \in LowerLetters}

\* String.prototype.toLowerCase / toUpperCase, one character
ToLowerChar(c) ==
    IF c \in UpperLetters THEN CHOOSE l \in LowerLetters : UpperOf[l] = c ELSE c

ToUpperChar(c) == IF c \in LowerLetters THEN UpperOf[c] ELSE c

ToLowerCase(s) == [i \in 1..Len(s) |-> ToLowerChar(s[i])]

ToUpperCase(s) == [i \in 1..Len(s) |-> ToUpperChar(s[i])]

\* the regular-expression classes \d, \s and \w
IsDigit(c) == c \in Digits

IsSpace(c) == c = " "

IsWordChar(c) == c \in Digits \cup LowerLetters \cup UpperLetters \cup {"_"}

\* s[p], or "" past either end
CharAt(s, p) == IF p \in 1..Len(s) THEN s[p] ELSE ""

Slice(s, from, to) == [i \in 1..(to - from + 1) |-> s[from + i - 1]]

\* LET x == v IN Op(x)
Let(v, Op(_)) == Op(v)

\* the first of two attempts that matched
OrElse(m, other) == IF m.ok THEN m ELSE other

RECURSIVE Flatten(_)
Flatten(ss) == IF ss = <<>> THEN <<>> ELSE Head(ss) \o Flatten(Tail(ss))

\* <<a, a-1, ..., b>>
Descending(a, b) == [i \in 1..(a - b + 1) |-> a - i + 1]

\* String.prototype.includes
Includes(hay, needle) ==
    \E i \in 1..(Len(hay) - Len(needle) + 1) :
        \A j \in 1..Len(needle) : hay[i + j - 1] = needle[j]

\* String.prototype.trim
RECURSIVE TrimStart(_)
TrimStart(s) ==
    IF s # <<>> /\ IsSpace(Head(s)) THEN TrimStart(Tail(s)) ELSE s

RECURSIVE TrimEnd(_)
TrimEnd(s) ==
    IF s # <<>> /\ IsSpace(s[Len(s)]) THEN TrimEnd(Slice(s, 1, Len(s) - 1)) ELSE s

Trim(s) == TrimEnd(TrimStart(s))

RECURSIVE SpaceRun(_, _)
SpaceRun(s, p) == IF IsSpace(CharAt(s, p)) THEN 1 + SpaceRun(s, p + 1) ELSE 0

RECURSIVE DigitRun(_, _)
DigitRun(s, p) == IF IsDigit(CharAt(s, p)) THEN 1 + DigitRun(s, p + 1) ELSE 0

(***************************************************************************)
(* The price patterns.  A pattern is matched as the regular-expression     *)
(* engine matches it: greedily, backtracking through the alternatives in   *)
(* priority order.  Each ...Ends operator lists the positions where a      *)
(* sub-pattern can end, in that order; a position is the index of the next *)
(* character to read.                                                      *)
(***************************************************************************)
Symbols == {"$", "€", "£"}

MagnitudeWordsA ==
    << <<"h","u","n","d","r","e","d">>, <<"t","h","o","u","s","a","n","d">>,
       <<"m","i","l","l","i","o","n">>, <<"b","i","l","l","i","o","n">>,
       <<"t","r","i","l","l","i","o","n">> >>

MagnitudeWordsB == MagnitudeWordsA \o << <<"k">>, <<"m">>, <<"b">> >>

\* grouped: the numeral is \d{1,3}(sep \d{3})*(\.\d+)?  followed by \s?(mag)?\b
\* multiWs: \s* (TRUE) or \s? (FALSE) after the symbol
\* sepOptional: [,\s]? (TRUE) or [,\s] (FALSE) before each group of three
PRICE_REGEX_A ==
    [grouped |-> TRUE, multiWs |-> TRUE, sepOptional |-> TRUE, mags |-> MagnitudeWordsA]

PRICE_REGEX_B ==
    [grouped |-> TRUE, multiWs |-> FALSE, sepOptional |-> FALSE, mags |-> MagnitudeWordsB]

\* /([$€£])\s*([\d\.\,]+)/g
priceRegexC ==
    [grouped |-> FALSE, multiWs |-> TRUE, sepOptional |-> FALSE, mags |-> <<>>]

WsEnds(re, s, p) ==
    IF re.multiWs THEN Descending(p + SpaceRun(s, p), p)
    ELSE IF IsSpace(CharAt(s, p)) THEN <<p + 1, p>> ELSE <<p>>

\* (?:\.\d+)?
FracEnds(s, p) ==
    IF CharAt(s, p) = "." /\ DigitRun(s, p + 1) >= 1
    THEN Descending(p + 1 + DigitRun(s, p + 1), p + 2) \o <<p>>
    ELSE <<p>>

\* (?:[,\s]?\d{3})*(?:\.\d+)?
RECURSIVE GroupEnds(_, _, _)
GroupEnds(re, s, p) ==
    LET withSep == IF CharAt(s, p) \in {",", " "} /\ DigitRun(s, p + 1) >= 3
                   THEN GroupEnds(re, s, p + 4) ELSE <<>>
        noSep   == IF re.sepOptional /\ DigitRun(s, p) >= 3
                   THEN GroupEnds(re, s, p + 3) ELSE <<>>
    IN  withSep \o noSep \o FracEnds(s, p)

\* \d{1,3}(?:[,\s]?\d{3})*(?:\.\d+)?
NumEnds(re, s, p) ==
    Let(SelectSeq(<<3, 2, 1>>, LAMBDA d : d <= DigitRun(s, p)),
        LAMBDA first : Flatten([k \in 1..Len(first) |-> GroupEnds(re, s, p + first[k])]))

MatchesWordCI(s, p, w) ==
    /\ p + Len(w) - 1 <= Len(s)
    /\ \A j \in 1..Len(w) : ToLowerChar(s[p + j - 1]) = w[j]

\* (hundred|thousand|...)? at p: the ends of the alternatives that match, in
\* order, then p itself for the empty alternative
MagEnds(re, s, p) ==
    Let(SelectSeq(re.mags, LAMBDA w : MatchesWordCI(s, p, w)),
        LAMBDA hit : [k \in 1..Len(hit) |-> p + Len(hit[k])] \o <<p>>)

\* \b at position p
WordBoundary(s, p) == IsWordChar(CharAt(s, p - 1)) # IsWordChar(CharAt(s, p))

NoMatch == [ok |-> FALSE]

MatchRecord(s, i, numStart, numEnd, magStart, end) ==
    [ok |-> TRUE, index |-> i, end |-> end,
     fullMatch |-> Slice(s, i, end - 1),
     currencySymbol |-> s[i],
     priceString |-> Slice(s, numStart, numEnd - 1),
     magnitudeWord |-> Slice(s, magStart, end - 1)]

\* \b after the magnitude: the first of the ends that is at a word boundary
RECURSIVE TryBoundary(_, _, _, _, _, _)
TryBoundary(s, i, numStart, numEnd, magStart, ends) ==
    IF ends = <<>> THEN NoMatch
    ELSE IF WordBoundary(s, Head(ends))
    THEN MatchRecord(s, i, numStart, numEnd, magStart, Head(ends))
    ELSE TryBoundary(s, i, numStart, numEnd, magStart, Tail(ends))

\* \s?(mag)?\b after a numeral that ends at numEnd: with the blank, then without
TryTail(re, s, i, numStart, numEnd) ==
    OrElse(IF IsSpace(CharAt(s, numEnd))
           THEN TryBoundary(s, i, numStart, numEnd, numEnd + 1, MagEnds(re, s, numEnd + 1))
           ELSE NoMatch,
           TryBoundary(s, i, numStart, numEnd, numEnd, MagEnds(re, s, numEnd)))

\* the numeral's possible ends, in order
RECURSIVE TryNumEnds(_, _, _, _, _)
TryNumEnds(re, s, i, numStart, numEnds) ==
    IF numEnds = <<>> THEN NoMatch
    ELSE OrElse(TryTail(re, s, i, numStart, Head(numEnds)),
                TryNumEnds(re, s, i, numStart, Tail(numEnds)))

\* the possible ends of the blanks after the symbol, in order
RECURSIVE TryWsEnds(_, _, _, _)
TryWsEnds(re, s, i, wsEnds) ==
    IF wsEnds = <<>> THEN NoMatch
    ELSE OrElse(TryNumEnds(re, s, i, Head(wsEnds), NumEnds(re, s, Head(wsEnds))),
                TryWsEnds(re, s, i, Tail(wsEnds)))

\* the grouped patterns, tried at index i
MatchGroupedAt(re, s, i) ==
    IF CharAt(s, i) \notin Symbols THEN NoMatch
    ELSE TryWsEnds(re, s, i, WsEnds(re, s, i + 1))

RECURSIVE NumeralCharRun(_, _)
NumeralCharRun(s, p) ==
    IF CharAt(s, p) \in Digits \cup {".", ","}
    THEN 1 + NumeralCharRun(s, p + 1) ELSE 0

\* /([$€£])\s*([\d\.\,]+)/ tried at index i
MatchLooseAt(s, i) ==
    Let(i + 1 + SpaceRun(s, i + 1),
        LAMBDA p :
            IF CharAt(s, i) \in Symbols /\ NumeralCharRun(s, p) >= 1
            THEN MatchRecord(s, i, p, p + NumeralCharRun(s, p),
                             p + NumeralCharRun(s, p), p + NumeralCharRun(s, p))
            ELSE NoMatch)

\* RegExp.prototype.exec of a global pattern: the leftmost match at or after
\* position from (lastIndex + 1), or NoMatch
RECURSIVE RegexExec(_, _, _)
RegexExec(re, s, from) ==
    IF from > Len(s) THEN NoMatch
    ELSE OrElse(IF re.grouped THEN MatchGroupedAt(re, s, from)
                ELSE MatchLooseAt(s, from),
                RegexExec(re, s, from + 1))

\* the matches of one scan collected last first
RECURSIVE ScanBackwards(_, _, _)
ScanBackwards(re, s, from) ==
    Let(RegexExec(re, s, from),
        LAMBDA m : IF m.ok THEN ScanBackwards(re, s, m.end) \o <<m>> ELSE <<>>)

\* every match of one scan, left to right (the exec loop, String.replace)
RECURSIVE ScanFrom(_, _, _)
ScanFrom(re, s, from) ==
    Let(RegexExec(re, s, from),
        LAMBDA m : IF m.ok THEN <<m>> \o ScanFrom(re, s, m.end) ELSE <<>>)

(***************************************************************************)
(* Numbers.  A JavaScript number is kept as a decimal  m * 10^e  (m >= 0), *)
(* or as NaN.  Every multiplier and factor of the program is a short       *)
(* decimal, so products are exact.                                         *)
(***************************************************************************)
NaN == [nan |-> TRUE, m |-> 0, e |-> 0]

RECURSIVE Norm(_)
Norm(d) ==
    IF d.nan \/ d.m = 0 THEN [d EXCEPT !.e = 0]
    ELSE IF d.m % 10 = 0 THEN Norm([d EXCEPT !.m = d.m \div 10, !.e = d.e + 1])
    ELSE d

Dec(m, e) == Norm([nan |-> FALSE, m |-> m, e |-> e])

DecMul(a, b) == IF a.nan \/ b.nan THEN NaN ELSE Dec(a.m * b.m, a.e + b.e)

RECURSIVE Pow10(_)
Pow10(k) == IF k = 0 THEN 1 ELSE 10 * Pow10(k - 1)

DigitChars == <<"0", "1", "2", "3", "4", "5", "6", "7", "8", "9">>

DigitValue(c) == CHOOSE v \in 0..9 : DigitChars[v + 1] = c

RECURSIVE DigitsToInt(_)
DigitsToInt(ds) ==
    IF ds = <<>> THEN 0
    ELSE 10 * DigitsToInt(Slice(ds, 1, Len(ds) - 1)) + DigitValue(ds[Len(ds)])

\* the number written as ni digits, then (when nf > 0) a point and nf digits
DecimalAt(s, ni, nf) ==
    IF ni + nf = 0 THEN NaN
    ELSE Dec(DigitsToInt(Slice(s, 1, ni) \o Slice(s, ni + 2, ni + 1 + nf)), 0 - nf)

\* parseFloat: the longest prefix  digits [. digits]  after leading blanks;
\* NaN when that prefix holds no digit
ParseFloat(str) ==
    Let(TrimStart(str),
        LAMBDA s : Let(DigitRun(s, 1),
            LAMBDA ni : DecimalAt(s, ni, IF CharAt(s, ni + 1) = "."
                                         THEN DigitRun(s, ni + 2) ELSE 0)))

\* String.prototype.replace(/[chars]/g, '')
Remove(s, chars) == SelectSeq(s, LAMBDA c : c \notin chars)

(***************************************************************************)
(* Variant A: MAGNITUDE_MAP and parsePriceMagnitude                        *)
(***************************************************************************)
MAGNITUDE_MAP_A(word) ==
    CASE word = <<"h","u","n","d","r","e","d">> -> Dec(1, 2)
      [] word = <<"t","h","o","u","s","a","n","d">> -> Dec(1, 3)
      [] word = <<"m","i","l","l","i","o","n">> -> Dec(1, 6)
      [] word = <<"b","i","l","l","i","o","n">> -> Dec(1, 9)
      [] word = <<"t","r","i","l","l","i","o","n">> -> Dec(1, 12)
      [] OTHER -> NaN       \* undefined

\* value * multiplier, or value itself when the table has no multiplier
TimesOrSame(value, multiplier) ==
    IF multiplier.nan THEN value ELSE DecMul(value, multiplier)

\* null is returned as NaN: the caller drops both alike
parsePriceMagnitudeA(priceString, magnitudeWord) ==
    Let(ParseFloat(Remove(priceString, {",", " "})),
        LAMBDA baseValue :
            IF baseValue.nan THEN NaN
            ELSE IF magnitudeWord = <<>> THEN baseValue
            ELSE TimesOrSame(baseValue, MAGNITUDE_MAP_A(ToLowerCase(magnitudeWord))))

(***************************************************************************)
(* Variant B: MAGNITUDE_MAP and parsePriceMagnitude                        *)
(***************************************************************************)
MAGNITUDE_MAP_B(word) ==
    CASE word = <<"h","u","n","d","r","e","d">> -> Dec(1, 2)
      [] word \in { <<"t","h","o","u","s","a","n","d">>, <<"k">> } -> Dec(1, 3)
      [] word \in { <<"m","i","l","l","i","o","n">>, <<"m">> } -> Dec(1, 6)
      [] word \in { <<"b","i","l","l","i","o","n">>, <<"b">> } -> Dec(1, 9)
      [] word \in { <<"t","r","i","l","l","i","o","n">>, <<"t">> } -> Dec(1, 12)
      [] OTHER -> NaN       \* undefined

parsePriceMagnitudeB(priceString, magnitudeWord) ==
    Let(ParseFloat(Remove(priceString, {","})),
        LAMBDA value :
            IF magnitudeWord = <<>> THEN value
            ELSE TimesOrSame(value, MAGNITUDE_MAP_B(ToLowerCase(magnitudeWord))))

(***************************************************************************)
(* Satoshis and the display text                                           *)
(***************************************************************************)
SATOSHIS_PER_BTC == 100000000
SAT_THRESHOLD == 50000000

\* Math.round(num / den)
RoundDiv(num, den) ==
    IF 2 * (num % den) >= den THEN num \div den + 1 ELSE num \div den

\* Math.round(x.m * 10^x.e / (r.m * 10^r.e))
RoundQuotient(x, r) ==
    IF x.e >= r.e THEN RoundDiv(x.m * Pow10(x.e - r.e), r.m)
    ELSE RoundDiv(x.m, r.m * Pow10(r.e - x.e))

\* -Math.round(-num / den): a half is rounded towards zero
RoundDivDown(num, den) ==
    IF 2 * (num % den) > den THEN num \div den + 1 ELSE num \div den

\* -Math.round(-(x.m * 10^x.e) / (r.m * 10^r.e))
RoundQuotientDown(x, r) ==
    IF x.e >= r.e THEN RoundDivDown(x.m * Pow10(x.e - r.e), r.m)
    ELSE RoundDivDown(x.m, r.m * Pow10(r.e - x.e))

\* Math.round(usdValue * SATOSHIS_PER_BTC / btcRate), btcRate # 0 an integer;
\* the powers of ten of the two cancel before the division.  A negative rate
\* gives a negative count (a count of -0 is kept as 0)
SatoshiValue(usdValue, btcRate) ==
    IF btcRate > 0
    THEN RoundQuotient(DecMul(usdValue, Dec(SATOSHIS_PER_BTC, 0)), Dec(btcRate, 0))
    ELSE 0 - RoundQuotientDown(DecMul(usdValue, Dec(SATOSHIS_PER_BTC, 0)),
                               Dec(0 - btcRate, 0))

RECURSIVE IntToDigits(_)
IntToDigits(n) ==
    IF n < 10 THEN << DigitChars[n + 1] >>
    ELSE IntToDigits(n \div 10) \o IntToDigits(n % 10)

\* Number.prototype.toLocaleString / Intl.NumberFormat('en-US'), n an integer
RECURSIVE GroupDigits(_)
GroupDigits(ds) ==
    IF Len(ds) <= 3 THEN ds
    ELSE GroupDigits(Slice(ds, 1, Len(ds) - 3)) \o <<",">> \o Slice(ds, Len(ds) - 2, Len(ds))

ToLocaleString(n) ==
    IF n < 0 THEN <<"-">> \o GroupDigits(IntToDigits(0 - n))
    ELSE GroupDigits(IntToDigits(n))

\* (satoshis / SATOSHIS_PER_BTC).toFixed(4)
ToFixed4(satoshis) ==
    Let(RoundDiv(satoshis, 10000),
        LAMBDA q : IntToDigits(q \div 10000) \o <<".">>
                   \o Slice(IntToDigits(10000 + (q % 10000)), 2, 5))

\* the threshold tested with > : 50,000,000 satoshis would show as satoshis
FormatSatoshisAbove(satoshiValue) ==
    IF satoshiValue > SAT_THRESHOLD
    THEN ToFixed4(satoshiValue) \o <<" ", "₿">>
    ELSE ToLocaleString(satoshiValue) \o <<" ", "s", "a", "t", "s">>

\* the text shown in place of a price
FormatSatoshis(satoshiValue) ==
    IF satoshiValue >= SAT_THRESHOLD
    THEN ToFixed4(satoshiValue) \o <<" ", "₿">>
    ELSE ToLocaleString(satoshiValue) \o <<" ", "s", "a", "t", "s">>

\* variant B, formatToBitcoin
formatToBitcoin(usdValue, btcPrice) ==
    IF btcPrice = 0 THEN <<"E","r","r","o","r",":"," ","P","r","i","c","e"," ","0">>
    ELSE FormatSatoshis(SatoshiValue(usdValue, btcPrice))

(***************************************************************************)
(* The dollar-currency classifiers                                         *)
(***************************************************************************)
DOLLAR_CURRENCY_RATES(code) ==
    CASE code = "USD" -> Dec(100, -2)
      [] code = "AUD" -> Dec(65, -2)
      [] code = "CAD" -> Dec(73, -2)
      [] code = "NZD" -> Dec(60, -2)
      [] code = "SGD" -> Dec(74, -2)
      [] OTHER -> Dec(100, -2)     \* || DOLLAR_CURRENCY_RATES['USD']

NON_DOLLAR_CURRENCY_RATES(symbol) ==
    CASE symbol = "€" -> Dec(108, -2)
      [] symbol = "£" -> Dec(125, -2)
      [] OTHER -> Dec(1, 0)        \* || 1.0

\* variant A: window.location.href as it is, navigator.language lower-cased
approximateDollarCurrencyA(url, language) ==
    IF \/ Includes(url, <<".","c","a">>)
       \/ Includes(url, <<"c","a","n","a","d","a">>)
       \/ Includes(ToLowerCase(language), <<"e","n","-","c","a">>)
    THEN [rate |-> Dec(73, -2), name |-> "CAD"]
    ELSE IF \/ Includes(url, <<".","a","u">>)
            \/ Includes(url, <<"a","u","s","t","r","a","l","i","a">>)
            \/ Includes(ToLowerCase(language), <<"e","n","-","a","u">>)
    THEN [rate |-> Dec(65, -2), name |-> "AUD"]
    ELSE IF \/ Includes(url, <<".","n","z">>)
            \/ Includes(url, <<"n","e","w","-","z","e","a","l","a","n","d">>)
            \/ Includes(ToLowerCase(language), <<"e","n","-","n","z">>)
    THEN [rate |-> Dec(60, -2), name |-> "NZD"]
    ELSE [rate |-> Dec(1, 0), name |-> "USD"]

\* variant B: the name only; the body text is read as it is
approximateDollarCurrencyB(url, language, content) ==
    IF \/ Includes(ToLowerCase(url), <<".","c","a">>)
       \/ Includes(ToLowerCase(language), <<"e","n","-","c","a">>)
       \/ Includes(content, <<"C","D","N">>)
    THEN "CAD"
    ELSE IF \/ Includes(ToLowerCase(url), <<".","a","u">>)
            \/ Includes(ToLowerCase(language), <<"e","n","-","a","u">>)
            \/ Includes(content, <<"A","U","D">>)
    THEN "AUD"
    ELSE IF \/ Includes(ToLowerCase(url), <<".","n","z">>)
            \/ Includes(ToLowerCase(language), <<"e","n","-","n","z">>)
            \/ Includes(content, <<"N","Z","D">>)
    THEN "NZD"
    ELSE "USD"

\* the classifier without its last return: a page without a signal would be
\* given a currency other than USD
approximateDollarCurrencyNoDefault(url, bodyText) ==
    IF Includes(ToLowerCase(url), <<".","a","u">>) THEN "AUD" ELSE "SGD"

\* variant C: the URL first, then the upper-cased body text
approximateDollarCurrencyC(url, bodyText) ==
    IF \/ Includes(ToLowerCase(url), <<".","a","u">>)
       \/ Includes(ToLowerCase(url), <<"a","u","s","t","r","a","l","i","a">>)
    THEN "AUD"
    ELSE IF \/ Includes(ToLowerCase(url), <<".","c","a">>)
            \/ Includes(ToLowerCase(url), <<"c","a","n","a","d","a">>)
    THEN "CAD"
    ELSE IF \/ Includes(ToLowerCase(url), <<".","n","z">>)
            \/ Includes(ToLowerCase(url), <<"n","e","w","z","e","a","l","a","n","d">>)
    THEN "NZD"
    ELSE IF Includes(ToLowerCase(url), <<"s","i","n","g","a","p","o","r","e">>)
    THEN "SGD"
    ELSE IF \/ Includes(ToUpperCase(bodyText), <<"A","U","S","T","R","A","L","I","A","N"," ","D","O","L","L","A","R">>)
            \/ Includes(ToUpperCase(bodyText), <<"A","U","D">>)
    THEN "AUD"
    ELSE IF \/ Includes(ToUpperCase(bodyText), <<"C","A","N","A","D","I","A","N"," ","D","O","L","L","A","R">>)
            \/ Includes(ToUpperCase(bodyText), <<"C","A","D">>)
    THEN "CAD"
    ELSE IF \/ Includes(ToUpperCase(bodyText), <<"N","E","W"," ","Z","E","A","L","A","N","D"," ","D","O","L","L","A","R">>)
            \/ Includes(ToUpperCase(bodyText), <<"N","Z","D">>)
    THEN "NZD"
    ELSE IF \/ Includes(ToUpperCase(bodyText), <<"S","I","N","G","A","P","O","R","E"," ","D","O","L","L","A","R">>)
            \/ Includes(ToUpperCase(bodyText), <<"S","G","D">>)
    THEN "SGD"
    ELSE "USD"

(***************************************************************************)
(* State                                                                   *)
(***************************************************************************)
VARIABLES
    variant,        \* "A", "B" or "C": the content script that is loaded
    href,           \* window.location.href / document.URL
    language,       \* navigator.language
    dom,            \* the document: node id -> node; id 1 is document.body
    walker,         \* the TreeWalker of the pass in progress
    lastIndex,      \* PRICE_REGEX.lastIndex of the shared global pattern
    BTC_USD_RATE,   \* variant A's global; 0 is null
    passes,         \* calls of convertPricesToSats so far
    passDom,        \* the document as it was when the current pass began
    steps,          \* what each loop iteration of the passes did
    inv,            \* the invocations of the content script's entry point
    guard,          \* document.body has the attribute data-btc-converter-active
    isEnabled,      \* chrome.storage.local 'isEnabled'
    background,     \* "A" or "B": the background script that is loaded
    handlers,       \* the runs of the background script's listeners
    initialEnabled, \* 'isEnabled' as it was stored before any listener ran
    badge           \* chrome.action badge text of each tab; "" is not set

(***************************************************************************)
(* The document tree                                                       *)
(***************************************************************************)
NoTitle == [original |-> <<>>, currency |-> ""]

TextDesc(text) ==
    [kind |-> "text", tag |-> "", cls |-> "", title |-> NoTitle,
     text |-> text, kids |-> <<>>]

ElementDesc(tag, cls, title, kids) ==
    [kind |-> "element", tag |-> tag, cls |-> cls, title |-> title,
     text |-> <<>>, kids |-> kids]

NodeOf(desc, parent) ==
    [kind |-> desc.kind, tag |-> desc.tag, cls |-> desc.cls, title |-> desc.title,
     text |-> desc.text, parent |-> parent, kids |-> <<>>]

Made(d, ids) == [dom |-> d, ids |-> ids]

\* createTextNode / createElement / the HTML parser: the nodes described by
\* descs, appended to d as the children-to-be of parent
RECURSIVE AllocSeq(_, _, _)
RECURSIVE AllocRest(_, _, _, _)
AllocSeq(d, parent, descs) ==
    IF descs = <<>> THEN Made(d, <<>>)
    ELSE AllocRest(parent, descs, Len(d) + 1,
                   AllocSeq(Append(d, NodeOf(Head(descs), parent)), Len(d) + 1,
                            Head(descs).kids))

AllocRest(parent, descs, id, sub) ==
    Let(AllocSeq([sub.dom EXCEPT ![id].kids = sub.ids], parent, Tail(descs)),
        LAMBDA rest : Made(rest.dom, <<id>> \o rest.ids))

IndexIn(seq, x) == CHOOSE i \in 1..Len(seq) : seq[i] = x

After(seq, i) == IF i < Len(seq) THEN seq[i + 1] ELSE 0

nextSibling(d, n) ==
    IF d[n].parent = 0 THEN 0
    ELSE After(d[d[n].parent].kids, IndexIn(d[d[n].parent].kids, n))

\* Node.textContent
RECURSIVE textContent(_, _)
textContent(d, n) ==
    IF d[n].kind = "text" THEN d[n].text
    ELSE Flatten([k \in 1..Len(d[n].kids) |-> textContent(d, d[n].kids[k])])

\* the nodes of the subtree of n, n included
RECURSIVE Subtree(_, _)
Subtree(d, n) ==
    {n} \cup UNION {Subtree(d, d[n].kids[k]) : k \in 1..Len(d[n].kids)}

\* the proper ancestors of n
RECURSIVE Ancestors(_, _)
Ancestors(d, n) ==
    IF d[n].parent = 0 THEN {} ELSE {d[n].parent} \cup Ancestors(d, d[n].parent)

Least(hits) == IF hits = {} THEN 0 ELSE CHOOSE n \in hits : \A m \in hits : n <= m

\* document.querySelector(tag): the first such element, or 0; the pages of
\* the model allocate their elements in document order
querySelector(d, tag) ==
    Least({n \in Subtree(d, 1) : d[n].kind = "element" /\ d[n].tag = tag})

Attach(parent, node, made) ==
    Made([made.dom EXCEPT
            ![parent].kids =
                Let(IndexIn(made.dom[parent].kids, node),
                    LAMBDA i : Slice(made.dom[parent].kids, 1, i - 1) \o made.ids
                               \o Slice(made.dom[parent].kids, i + 1,
                                        Len(made.dom[parent].kids))),
            ![node].parent = 0],
         made.ids)

\* parent.replaceChild(fragment, node): the fragment's nodes take node's place
\* and node is detached
replaceChild(d, node, descs) ==
    Attach(d[node].parent, node, AllocSeq(d, d[node].parent, descs))

(***************************************************************************)
(* TreeWalker (NodeFilter.SHOW_TEXT)                                       *)
(***************************************************************************)
\* the next node after n in document order that is not below n, within root
RECURSIVE NextSkippingChildren(_, _, _)
NextSkippingChildren(d, root, n) ==
    IF n = 0 \/ n = root THEN 0
    ELSE Let(nextSibling(d, n),
             LAMBDA sibling : IF sibling # 0 THEN sibling
                              ELSE NextSkippingChildren(d, root, d[n].parent))

\* variant C's acceptNode; variants A and B pass no filter
acceptNode(v, d, n) ==
    IF v = "C"
    THEN /\ ~(d[n].parent # 0 /\ d[d[n].parent].tag \in {"SCRIPT", "STYLE"})
         /\ Trim(d[n].text) # <<>>
    ELSE TRUE

\* walker.nextNode() from currentNode cur: the next accepted text node, or 0
RECURSIVE nextNode(_, _, _, _)
nextNode(v, d, root, cur) ==
    Let(IF d[cur].kids # <<>> THEN d[cur].kids[1]
        ELSE NextSkippingChildren(d, root, cur),
        LAMBDA n : IF n = 0 THEN 0
                   ELSE IF d[n].kind = "text" /\ acceptNode(v, d, n) THEN n
                   ELSE nextNode(v, d, root, n))

(***************************************************************************)
(* String helpers of the rewriters                                         *)
(***************************************************************************)
\* String.prototype.substring(a, b), 0-based, the arguments swapped when a > b
Substring(s, a, b) ==
    IF a <= b THEN Slice(s, a + 1, IF b <= Len(s) THEN b ELSE Len(s))
    ELSE Slice(s, b + 1, IF a <= Len(s) THEN a ELSE Len(s))

StartsWithAt(s, p, w) ==
    /\ p + Len(w) - 1 <= Len(s)
    /\ \A j \in 1..Len(w) : s[p + j - 1] = w[j]

\* the HTML parser on character data: the character references are decoded
\* (of the numeric references, the one of the letter A)
RECURSIVE DecodeEntities(_, _)
DecodeEntities(s, p) ==
    IF p > Len(s) THEN <<>>
    ELSE IF StartsWithAt(s, p, <<"&", "#", "6", "5", ";">>) THEN <<"A">> \o DecodeEntities(s, p + 5)
    ELSE IF StartsWithAt(s, p, <<"&", "l", "t", ";">>) THEN <<"<">> \o DecodeEntities(s, p + 4)
    ELSE IF StartsWithAt(s, p, <<"&", "g", "t", ";">>) THEN <<">">> \o DecodeEntities(s, p + 4)
    ELSE IF StartsWithAt(s, p, <<"&", "a", "m", "p", ";">>) THEN <<"&">> \o DecodeEntities(s, p + 5)
    ELSE <<s[p]>> \o DecodeEntities(s, p + 1)

\* the HTML serializer on a text node
EncodeText(s) ==
    Flatten([i \in 1..Len(s) |->
        CASE s[i] = "&" -> <<"&", "a", "m", "p", ";">>
          [] s[i] = "<" -> <<"&", "l", "t", ";">>
          [] s[i] = ">" -> <<"&", "g", "t", ";">>
          [] OTHER -> <<s[i]>>])

\* a piece of the string that String.replace builds: literal text or the
\* markup of one span
Lit(text) == [lit |-> TRUE, text |-> text, span |-> TextDesc(<<>>)]
Markup(span) == [lit |-> FALSE, text |-> <<>>, span |-> span]

\* text.replace(pattern, callback): the text between the matches kept, each
\* match replaced by what the callback returned for it
RECURSIVE StringReplace(_, _, _, _)
StringReplace(s, matches, results, pos) ==
    IF matches = <<>> THEN << Lit(Slice(s, pos, Len(s))) >>
    ELSE << Lit(Slice(s, pos, Head(matches).index - 1)), Head(results) >>
         \o StringReplace(s, Tail(matches), Tail(results), Head(matches).end)

Flush(pending) ==
    IF pending = <<>> THEN <<>> ELSE << TextDesc(DecodeEntities(pending, 1)) >>

\* tempDiv.innerHTML = newText: adjacent literal text is one text node (none
\* when empty), its character references decoded; each span is an element
RECURSIVE ParseHTML(_, _)
ParseHTML(pieces, pending) ==
    IF pieces = <<>> THEN Flush(pending)
    ELSE IF Head(pieces).lit
    THEN ParseHTML(Tail(pieces), pending \o Head(pieces).text)
    ELSE Flush(pending) \o << Head(pieces).span >> \o ParseHTML(Tail(pieces), <<>>)

\* tempDiv.innerHTML read back; an element is written as its start tag's name
\* only, which is enough to tell the result from a text without markup
SerializeHTML(descs) ==
    Flatten([i \in 1..Len(descs) |->
        IF descs[i].kind = "text" THEN EncodeText(descs[i].text)
        ELSE <<"<", "s", "p", "a", "n", ">">>])

SpanDesc(cls, original, currency, shown) ==
    ElementDesc("SPAN", cls, [original |-> original, currency |-> currency],
                << TextDesc(shown) >>)

\* what one loop iteration did: whether the text was tested against the
\* pattern, the valid tokens found, whether replaceChild ran and with what
Result(scanned, tokens, replace, descs, li) ==
    [scanned |-> scanned, tokens |-> tokens, replace |-> replace,
     descs |-> descs, lastIndex |-> li]

(***************************************************************************)
(* Variant A, convertPricesToSats: one text node                           *)
(***************************************************************************)
\* the skip test at the head of the loop
SkippedA(d, node) ==
    /\ d[node].parent # 0
    /\ \/ d[d[node].parent].tag \in {"SCRIPT", "STYLE", "A"}
       \/ d[d[node].parent].cls = "bitcoin-price-converted"

UsdValueA(currencySymbol, numericalValue, dollarCurrency) ==
    CASE currencySymbol = "$" -> DecMul(numericalValue, dollarCurrency.rate)
      [] currencySymbol = "£" -> DecMul(numericalValue, Dec(125, -2))
      [] currencySymbol = "€" -> DecMul(numericalValue, Dec(108, -2))
      [] OTHER -> numericalValue

CurrencyNameA(currencySymbol, dollarCurrency) ==
    CASE currencySymbol = "$" -> dollarCurrency.name
      [] currencySymbol = "£" -> "GBP"
      [] currencySymbol = "€" -> "EUR"
      [] OTHER -> "USD"

PushA(m, numericalValue, dollarCurrency, rate) ==
    IF numericalValue.nan THEN <<>>
    ELSE << [index |-> m.index - 1, length |-> Len(m.fullMatch), match |-> m,
             element |-> SpanDesc("bitcoin-price-converted", Trim(m.fullMatch),
                            CurrencyNameA(m.currencySymbol, dollarCurrency),
                            FormatSatoshis(SatoshiValue(
                                UsdValueA(m.currencySymbol, numericalValue, dollarCurrency),
                                rate)))] >>

\* the body of the exec loop for one match: the replacement pushed, or none
ReplacementA(m, rate) ==
    PushA(m, parsePriceMagnitudeA(m.priceString, m.magnitudeWord),
          approximateDollarCurrencyA(href, language), rate)

\* the exec loop without the reset before it: it resumes where test() ended
ReplacementsAFromTest(nodeContent, rate) ==
    Let(ScanFrom(PRICE_REGEX_A, nodeContent, RegexExec(PRICE_REGEX_A, nodeContent, 1).end),
        LAMBDA ms : Flatten([k \in 1..Len(ms) |-> ReplacementA(ms[k], rate)]))

\* the exec loop: PRICE_REGEX.lastIndex is 0 when it starts
ReplacementsA(nodeContent, rate) ==
    Let(ScanFrom(PRICE_REGEX_A, nodeContent, 1),
        LAMBDA ms : Flatten([k \in 1..Len(ms) |-> ReplacementA(ms[k], rate)]))

TextIfAny(t) == IF Len(t) > 0 THEN << TextDesc(t) >> ELSE <<>>

\* the fragment: text before each match, the element, the text after the last
RECURSIVE FragmentA(_, _, _)
FragmentA(nodeContent, replacements, currentPos) ==
    IF replacements = <<>>
    THEN TextIfAny(Substring(nodeContent, currentPos, Len(nodeContent)))
    ELSE TextIfAny(Substring(nodeContent, currentPos, Head(replacements).index))
         \o << Head(replacements).element >>
         \o FragmentA(nodeContent, Tail(replacements),
                      Head(replacements).index + Head(replacements).length)

BuiltA(nodeContent, reps) ==
    Result(TRUE, [k \in 1..Len(reps) |-> reps[k].match], reps # <<>>,
           FragmentA(nodeContent, reps, 0), 0)

\* what one loop iteration does with node
IterationA(d, node, rate, li) ==
    IF SkippedA(d, node) \/ d[node].text = <<>>
    THEN Result(FALSE, <<>>, FALSE, <<>>, li)
    ELSE IF ~RegexExec(PRICE_REGEX_A, d[node].text, li + 1).ok
    THEN Result(TRUE, <<>>, FALSE, <<>>, 0)
    ELSE BuiltA(d[node].text, ReplacementsA(d[node].text, rate))

(***************************************************************************)
(* Variant B, convertPricesToSats: one text node                           *)
(***************************************************************************)
CurrencyNameB(d, currencySymbol) ==
    CASE currencySymbol = "$" -> approximateDollarCurrencyB(href, language, textContent(d, 1))
      [] currencySymbol = "€" -> "EUR"
      [] currencySymbol = "£" -> "GBP"
      [] OTHER -> "USD"

\* the replace callback
CallbackB(d, m, btcPrice) ==
    Markup(SpanDesc("btc-converted-price",
                    <<m.currencySymbol>> \o m.priceString \o m.magnitudeWord,
                    CurrencyNameB(d, m.currencySymbol),
                    formatToBitcoin(parsePriceMagnitudeB(m.priceString, m.magnitudeWord),
                                    btcPrice)))

\* tempDiv.innerHTML = text.replace(...); if (tempDiv.innerHTML === text) continue
ScannedB(d, text, ms, btcPrice) ==
    Let(ParseHTML(StringReplace(text, ms,
            [k \in 1..Len(ms) |-> CallbackB(d, ms[k], btcPrice)], 1), <<>>),
        LAMBDA descs : Result(TRUE, ms, SerializeHTML(descs) # text, descs, 0))

IterationB(d, node, btcPrice, li) ==
    IF d[node].text = <<>> THEN Result(FALSE, <<>>, FALSE, <<>>, li)
    ELSE ScannedB(d, d[node].text, ScanFrom(PRICE_REGEX_B, d[node].text, 1), btcPrice)

(***************************************************************************)
(* Variant C, convertPricesToSats: one text node                           *)
(***************************************************************************)
IsValidC(m) == ~ParseFloat(Remove(m.priceString, {","})).nan

UsdValueC(currencySymbol, numericValue, dollarContext) ==
    IF currencySymbol = "$"
    THEN DecMul(numericValue, DOLLAR_CURRENCY_RATES(dollarContext))
    ELSE DecMul(numericValue, NON_DOLLAR_CURRENCY_RATES(currencySymbol))

\* the callback returning nothing for a numeral it cannot read: the token
\* would vanish from the text
ConvertedCDropped(m, numericValue, btcRate, dollarContext) ==
    IF numericValue.nan THEN Lit(<<>>)
    ELSE Markup(SpanDesc("bitcoin-price", Trim(m.fullMatch),
                         IF m.currencySymbol = "$" THEN dollarContext
                         ELSE m.currencySymbol,
                         FormatSatoshis(SatoshiValue(
                             UsdValueC(m.currencySymbol, numericValue, dollarContext),
                             btcRate))))

ConvertedC(m, numericValue, btcRate, dollarContext) ==
    IF numericValue.nan THEN Lit(m.fullMatch)
    ELSE Markup(SpanDesc("bitcoin-price", Trim(m.fullMatch),
                         IF m.currencySymbol = "$" THEN dollarContext
                         ELSE m.currencySymbol,
                         FormatSatoshis(SatoshiValue(
                             UsdValueC(m.currencySymbol, numericValue, dollarContext),
                             btcRate))))

\* the replace callback
CallbackC(m, btcRate, dollarContext) ==
    ConvertedC(m, ParseFloat(Remove(m.priceString, {","})), btcRate, dollarContext)

ScannedC(originalText, ms, btcRate, dollarContext, li) ==
    IF ms = <<>> THEN Result(TRUE, <<>>, FALSE, <<>>, li)
    ELSE Result(TRUE, SelectSeq(ms, IsValidC), TRUE,
                ParseHTML(StringReplace(originalText, ms,
                    [k \in 1..Len(ms) |-> CallbackC(ms[k], btcRate, dollarContext)], 1),
                    <<>>),
                li)

\* priceRegex is created by each call, so test() starts at 0 and the replace
\* that follows finds a match exactly when test() did
IterationC(d, node, btcRate, dollarContext, li) ==
    ScannedC(d[node].text, ScanFrom(priceRegexC, d[node].text, 1), btcRate,
             dollarContext, li)

(***************************************************************************)
(* convertPricesToSats: the pass                                           *)
(***************************************************************************)
Iteration(d, node, w, li) ==
    CASE variant = "A" -> IterationA(d, node, w.rate, li)
      [] variant = "B" -> IterationB(d, node, w.rate, li)
      [] variant = "C" -> IterationC(d, node, w.rate, w.dollarContext, li)

\* the cursor left where it was, on the node that replaceChild detached
RepositionOmitted(cur, ids) == cur

\* if (lastInsertedNode) walker.currentNode = lastInsertedNode
Reposition(cur, ids) == IF ids # <<>> THEN ids[Len(ids)] ELSE cur

IdleWalker ==
    [active |-> FALSE, root |-> 0, cur |-> 0, rate |-> 0, dollarContext |-> "", by |-> 0]

\* the root each variant hands to convertPricesToSats
RootOf(d) == IF variant = "C" THEN querySelector(d, "ARTICLE") ELSE 1

\* the early returns at the head of convertPricesToSats
Refused(d, root, rate) ==
    CASE variant = "A" -> root = 0 \/ rate = 0
      [] variant = "B" -> textContent(d, root) = <<>>
      [] variant = "C" -> root = 0 \/ d[root].kind # "element"

\* a call of convertPricesToSats by invocation `by`: the walker is created on
\* the root
BeginPass(rate, dollarContext, by) ==
    /\ passes' = passes + 1
    /\ passDom' = dom
    /\ walker' = IF Refused(dom, RootOf(dom), rate) THEN IdleWalker
                 ELSE [active |-> TRUE, root |-> RootOf(dom), cur |-> RootOf(dom),
                       rate |-> rate, dollarContext |-> dollarContext, by |-> by]

\* the record of one loop iteration: the node, its text and the elements it
\* was inside of when nextNode returned it, and what was done with it
Step(node, it, inserted) ==
    [pass |-> passes, by |-> walker.by, rate |-> walker.rate, node |-> node,
     text |-> dom[node].text,
     within |-> {<<dom[a].tag, dom[a].cls>> : a \in Ancestors(dom, node)},
     scanned |-> it.scanned, tokens |-> it.tokens,
     replaced |-> it.replace, inserted |-> inserted]

Advance(node, it, new) ==
    /\ lastIndex' = it.lastIndex
    /\ dom' = new.dom
    /\ walker' = [walker EXCEPT !.cur = Reposition(node, new.ids)]
    /\ steps' = Append(steps, Step(node, it, new.ids))

Visit(node, it) ==
    Advance(node, it, IF it.replace THEN replaceChild(dom, node, it.descs)
                      ELSE Made(dom, <<>>))

Body(node) == node # 0 /\ Visit(node, Iteration(dom, node, walker, lastIndex))

\* one iteration of the while loop: nextNode returned a node
WalkNode ==
    /\ walker.active
    /\ Body(nextNode(variant, dom, walker.root, walker.cur))
    /\ UNCHANGED <<variant, href, language, BTC_USD_RATE, passes, passDom, inv,
                   guard, isEnabled, background, handlers, initialEnabled, badge>>

\* nextNode returned null: the loop ends, the call returns and with it the
\* entry point that made it
WalkEnd ==
    /\ walker.active
    /\ nextNode(variant, dom, walker.root, walker.cur) = 0
    /\ walker' = [walker EXCEPT !.active = FALSE]
    /\ inv' = [i \in DOMAIN inv |->
                 IF inv[i].pc = "pass" THEN [inv[i] EXCEPT !.pc = "done"] ELSE inv[i]]
    /\ UNCHANGED <<variant, href, language, dom, lastIndex, BTC_USD_RATE, passes,
                   passDom, steps, guard, isEnabled, background, handlers, initialEnabled, badge>>

(***************************************************************************)
(* The pages the model draws from                                          *)
(***************************************************************************)
MaxKids == 2        \* children of the page's root element
MaxPasses == 2      \* calls of convertPricesToSats on one document

TxPlain == <<"o", "k">>
TxOne == <<"$", "5">>
TxTwo == <<"a", " ", "$", "5", ",", " ", "£", "2", " ", "x">>
TxBad == <<"$", ".">>
TxAmp == <<"R", "&", "D">>
TxEnt == <<"&", "l", "t", ";", "$", "5">>
TxBlank == <<" ">>
TxEdge == <<"$", "2", "5", ",", "0", "0", "0", " ",
            "$", "2", "4", ",", "9", "9", "9", ".", "9", "9", "9", "5">>
TxSpec == <<"$", "1", "0", "0", " ", "£", "5", "0">>
TxCad == <<"C", "A", "D", " ", "$", "5">>
TxRef == <<"$", "5", " ", "&", "#", "6", "5", ";", "U", "D">>
TxMix == <<"$", ".", " ", "$", "5", " ", "£", ",">>
TxThousand == <<"$", "5", " ", "t", "h", "o", "u", "s", "a", "n", "d">>
TxGrouped == <<"$", "1", ",", "2", "3", "4", ".", "5", "0">>
TxSpaced == <<"$", "1", " ", "0", "0", "0">>

\* a price with each magnitude word (numerals small enough for the satoshis
\* to stay within the integers of the model)
TxHundred ==
    <<"$", "2", " ", "h", "u", "n", "d", "r", "e", "d">>
TxK ==
    <<"$", "5", " ", "K">>
TxMillion ==
    <<"$", "0", ".", "0", "1", " ", "M", "i", "l", "l", "i", "o", "n">>
TxM ==
    <<"$", "0", ".", "0", "1", " ", "m">>
TxBillion ==
    <<"$", "0", ".", "0", "0", "0", "0", "1", " ", "b", "i", "l", "l", "i", "o", "n">>
TxB ==
    <<"$", "0", ".", "0", "0", "0", "0", "1", " ", "B">>
TxTrillion ==
    <<"$", "0", ".", "0", "0", "0", "0", "0", "0", "0", "1", " ", "t", "r", "i", "l", "l", "i", "o", "n">>
TxT ==
    <<"$", "0", ".", "0", "0", "0", "0", "0", "0", "0", "1", " ", "t">>

\* a magnitude word right after the last digit
TxGluedK == <<"$", "5", "k">>
TxGluedWord == <<"$", "5", "t", "h", "o", "u", "s", "a", "n", "d">>

MagnitudeTexts == {TxHundred, TxThousand, TxK, TxMillion, TxM, TxBillion, TxB, TxTrillion, TxT}

Wrap(tag, desc) == ElementDesc(tag, "", NoTitle, <<desc>>)

Items ==
    {TextDesc(t) : t \in {TxPlain, TxTwo, TxBad, TxAmp, TxEnt, TxBlank}}
    \cup {Wrap(tag, TextDesc(TxOne)) : tag \in {"DIV", "A", "SCRIPT", "STYLE"}}
    \cup {Wrap("A", Wrap("B", TextDesc(TxOne)))}

Layouts == UNION {[1..n -> Items] : n \in 1..MaxKids}

PlainHref == <<"x", ".", "c", "o", "m">>

Hrefs == { PlainHref, <<"x", ".", "a", "u">> }

Languages == { <<"e", "n", "-", "U", "S">> }

Rates == {50000}

EnAu == <<"e", "n", "-", "A", "U">>

\* the pages of the rewriter's runs: every layout at every address, a page
\* that names a currency, two pages under an Australian locale, and at the
\* plain address with the plain locale the amounts at the display
\* threshold (nine digits: their product with a currency factor would leave
\* the integers of the model), the amounts of the worked example, a page
\* whose text holds a character reference, a page with numerals that
\* cannot be read next to one that can, and prices with a magnitude word and
\* with grouped digits
Pages ==
    {[href |-> h, language |-> g, items |-> l] :
        h \in Hrefs, g \in Languages, l \in Layouts \cup { << TextDesc(TxCad) >> }}
    \cup {[href |-> h, language |-> EnAu, items |-> l] :
             h \in Hrefs, l \in { << TextDesc(TxOne) >>, << TextDesc(TxCad) >> }}
    \cup {[href |-> PlainHref, language |-> g, items |-> l] :
             g \in Languages,
             l \in { << TextDesc(TxEdge) >>, << TextDesc(TxSpec) >>,
                     << TextDesc(TxRef), TextDesc(TxOne) >>,
                     << TextDesc(TxMix) >>, << TextDesc(TxGrouped) >>,
                     << TextDesc(TxSpaced) >> }
                   \cup {<< TextDesc(t) >> : t \in MagnitudeTexts \cup {TxGluedK, TxGluedWord}}}

BodyNode ==
    [kind |-> "element", tag |-> "BODY", cls |-> "", title |-> NoTitle,
     text |-> <<>>, parent |-> 0, kids |-> <<>>]

\* document.body holding the items; in variant C they are in an <article>
Page(v, items) ==
    Let(AllocSeq(<<BodyNode>>, 1,
                 IF v = "C" THEN << ElementDesc("ARTICLE", "", NoTitle, items) >>
                 ELSE items),
        LAMBDA made : [made.dom EXCEPT ![1].kids = made.ids])

(***************************************************************************)
(* The rate provider's replies                                             *)
(***************************************************************************)
BtcUsd == <<"B", "T", "C", "-", "U", "S", "D">>
BtcUsdt == <<"B", "T", "C", "-", "U", "S", "D", "T">>
BtcEur == <<"B", "T", "C", "-", "E", "U", "R">>

\* a PRICE field: a number, or no field at all
Num(n) == [type |-> "number", n |-> n]
Undefined == [type |-> "undefined", n |-> 0]

Item(instrument, quote, price) ==
    [MAPPED_INSTRUMENT |-> instrument, QUOTE |-> quote, PRICE |-> price]

ListUsd == << Item(BtcUsd, "USD", Num(50000)) >>
ListEur == << Item(BtcEur, "EUR", Num(45000)) >>
ListZeroFirst == << Item(BtcUsd, "USD", Num(0)), Item(BtcUsdt, "USDT", Num(60000)) >>
ListNoPrice == << Item(BtcUsd, "USD", Undefined), Item(BtcUsdt, "USDT", Num(60000)) >>
ListNegative == << Item(BtcUsd, "USD", Num(0 - 50000)) >>

\* what one fetch can come to: a network error, a response whose status is
\* not ok, an ok response whose body is not JSON, or an ok response whose
\* JSON holds Data.LIST
Responses ==
    {[kind |-> k, list |-> <<>>] : k \in {"throw", "status", "parse"}}
    \cup {[kind |-> "json", list |-> l] :
             l \in {ListUsd, ListEur, ListZeroFirst, ListNoPrice, ListNegative}}

\* Array.prototype.find: the index of the first item passing the test, or 0
Find(list, Test(_)) == Least({k \in 1..Len(list) : Test(list[k])})

\* the PRICE of item k as a rate; 0 stands for every falsy outcome: no item,
\* no PRICE field, a PRICE of 0
PriceAt(list, k) ==
    IF k = 0 THEN 0
    ELSE IF list[k].PRICE.type = "number" THEN list[k].PRICE.n
    ELSE 0

\* variant A: the PRICE of the first BTC-USD / BTC-USDT instrument whose
\* PRICE is a number, or null (0)
SelectA(list) ==
    PriceAt(list, Find(list, LAMBDA item :
        /\ item.MAPPED_INSTRUMENT # <<>>
        /\ \/ Includes(item.MAPPED_INSTRUMENT, BtcUsd)
           \/ Includes(item.MAPPED_INSTRUMENT, BtcUsdt)
        /\ item.PRICE.type = "number"))

\* variant B: the PRICE of the first USD / USDT market, 0 when there is none
SelectB(list) ==
    PriceAt(list, Find(list, LAMBDA item : item.QUOTE \in {"USD", "USDT"}))

Positive(price) == IF price > 0 THEN price ELSE 0

\* variant C: the PRICE of the first USD / USDT / FDUSD market when it is a
\* positive number, 0 otherwise
SelectC(list) ==
    Positive(PriceAt(list, Find(list, LAMBDA item :
        item.QUOTE \in {"USD", "USDT", "FDUSD"})))

(***************************************************************************)
(* The entry points: init (A), the main block (B), window.onload (C)       *)
(***************************************************************************)
MaxInvocations == 2     \* runs of the entry point on one document

\* one attempt more than the code allows
RetriesOneMore == 3 + 1

maxRetries == 3
MAX_RETRIES == 3
FALLBACK_BTC_USD_RATE == 70000

\* variant A, fetchWithBackoff: let delay = 1000
InitialDelayA == 1000

\* variant A, fetchWithBackoff: the loop condition, the test before the wait
\* and delay *= 2
\* a delay that is not doubled
DelayKept(delay) == delay

LoopContinuesA(i) == i < maxRetries
MayWaitA(i) == i < maxRetries - 1
NextDelayA(delay) == delay * 2

\* variant C, getRealtimeBtcRate: the loop condition, the test before the wait
\* and 2000 * Math.pow(2, attempt)
\* a loop that gives up after the first attempt
LoopCutShort(attempt) == attempt < 1

LoopContinuesC(attempt) == attempt < MAX_RETRIES
MayWaitC(attempt) == attempt < MAX_RETRIES - 1
DelayC(attempt) == 2000 * (2 ^ attempt)

NoReply == [kind |-> "none", list |-> <<>>]

\* an invocation of the entry point: where it is, the loop's variables, what
\* the provider returned, the classification, the reply to the fetch it made
\* last and the events so far
Fresh ==
    [pc |-> "idle", attempt |-> 0, delay |-> 0, rate |-> 0, settled |-> FALSE,
     dollarContext |-> "", reply |-> NoReply, log |-> <<>>]

Ev(ev, n) == [ev |-> ev, n |-> n]

\* attempt n came to reply r and was taken as a success or as a failure
Got(ev, n, r) == [ev |-> ev, n |-> n, of |-> r]

\* the events as the log keeps them, and the reply that came with them
Logged(evs) == [k \in 1..Len(evs) |-> Ev(evs[k].ev, evs[k].n)]
ReplyOf(evs) ==
    IF evs # <<>> /\ "of" \in DOMAIN evs[1] THEN evs[1].of ELSE NoReply

\* fetch(url) is called for attempt number n (counted from 0)
Issue(i, n, delay, evs) ==
    inv' = [inv EXCEPT ![i] = [inv[i] EXCEPT
                !.pc = "fetch", !.attempt = n, !.delay = delay,
                !.reply = ReplyOf(evs),
                !.log = inv[i].log \o Logged(evs) \o << Ev("attempt", n + 1) >>]]

\* setTimeout(resolve, ms) is awaited
Wait(i, ms, evs) ==
    inv' = [inv EXCEPT ![i] = [inv[i] EXCEPT
                !.pc = "wait", !.reply = ReplyOf(evs),
                !.log = inv[i].log \o Logged(evs) \o << Ev("wait", ms) >>]]

\* the entry point returns without a pass
Return(i, evs) ==
    inv' = [inv EXCEPT ![i] = [inv[i] EXCEPT
                !.pc = "done", !.log = inv[i].log \o Logged(evs)]]

\* the rate provider returns rate (0: no rate) and the entry point goes on:
\* to convertPricesToSats when proceeds, to its return otherwise
Settle(i, rate, proceeds, evs) ==
    /\ inv' = [inv EXCEPT ![i] = [inv[i] EXCEPT
                !.pc = IF proceeds /\ ~Refused(dom, RootOf(dom), rate)
                       THEN "pass" ELSE "done",
                !.rate = rate, !.settled = TRUE, !.reply = ReplyOf(evs),
                !.log = inv[i].log \o Logged(evs) \o << Ev("settled", rate) >>]]
    /\ IF proceeds THEN BeginPass(rate, inv[i].dollarContext, i)
       ELSE UNCHANGED <<passes, passDom, walker>>

\* variant A, init: BTC_USD_RATE = await getRealtimeBtcRate();
\* if (!BTC_USD_RATE) return; ... convertPricesToSats(document.body)
ReturnA(i, rate, evs) ==
    /\ BTC_USD_RATE' = rate
    /\ Settle(i, rate, rate # 0, evs)

\* variant A, fetchWithBackoff: the loop goes round after the wait
NextAttemptA(i, n, delay) ==
    IF LoopContinuesA(n)
    THEN Issue(i, n, delay, <<>>) /\ UNCHANGED <<BTC_USD_RATE, passes, passDom, walker>>
    ELSE ReturnA(i, 0, <<>>)

\* variant A: fetchWithBackoff's try and catch, then getRealtimeBtcRate
SettlesA(i, r) ==
    IF r.kind = "json"
    THEN ReturnA(i, SelectA(r.list), << Got("ok", inv[i].attempt + 1, r) >>)
    ELSE IF MayWaitA(inv[i].attempt)
    THEN /\ Wait(i, inv[i].delay, << Got("fail", inv[i].attempt + 1, r) >>)
         /\ UNCHANGED <<BTC_USD_RATE, passes, passDom, walker>>
    ELSE ReturnA(i, 0, << Got("fail", inv[i].attempt + 1, r) >>)

\* variant B, the main block after its one fetch: response.json() or
\* data.Data.LIST throws unless the reply is the JSON of a ticker list
SettlesB(i, r) ==
    /\ IF r.kind = "json" /\ SelectB(r.list) # 0
       THEN Settle(i, SelectB(r.list), TRUE, << Got("ok", 1, r) >>)
       ELSE Settle(i, 0, FALSE, << Got("fail", 1, r) >>)
    /\ UNCHANGED BTC_USD_RATE

\* a provider that returns no rate where the loop of variant C is left
NoFallback(i, n, evs) ==
    IF n < 3
    THEN Issue(i, n, 0, evs) /\ UNCHANGED <<passes, passDom, walker>>
    ELSE Settle(i, 0, FALSE, evs)

\* variant C, getRealtimeBtcRate: the loop goes round
NextAttemptC(i, n, evs) ==
    IF LoopContinuesC(n)
    THEN Issue(i, n, 0, evs) /\ UNCHANGED <<passes, passDom, walker>>
    ELSE Settle(i, FALLBACK_BTC_USD_RATE, TRUE, evs)

\* variant C, getRealtimeBtcRate: the try and the catch
SettlesC(i, r) ==
    /\ IF r.kind = "json" /\ SelectC(r.list) # 0
       THEN Settle(i, SelectC(r.list), TRUE, << Got("ok", inv[i].attempt + 1, r) >>)
       ELSE IF MayWaitC(inv[i].attempt)
       THEN /\ Wait(i, DelayC(inv[i].attempt), << Got("fail", inv[i].attempt + 1, r) >>)
            /\ UNCHANGED <<passes, passDom, walker>>
       ELSE NextAttemptC(i, inv[i].attempt + 1, << Got("fail", inv[i].attempt + 1, r) >>)
    /\ UNCHANGED BTC_USD_RATE

\* a guard test that never finds the attribute
AttributeIgnored == FALSE

\* document.body.hasAttribute('data-btc-converter-active')
hasAttribute == guard

\* the script is run on the document: the entry point runs to its first await
Start(i) ==
    /\ ~walker.active
    /\ inv[i].pc = "idle"
    /\ IF i = 1 THEN TRUE ELSE inv[i - 1].pc # "idle"
    /\ CASE variant = "A" -> Issue(i, 0, InitialDelayA, <<>>)
         [] variant = "B" ->
                inv' = [inv EXCEPT ![i] = [inv[i] EXCEPT !.pc = "storage"]]
         [] variant = "C" ->
                inv' = [inv EXCEPT ![i] = [inv[i] EXCEPT
                    !.pc = "fetch",
                    !.dollarContext = approximateDollarCurrencyC(href, textContent(dom, 1)),
                    !.log = << Ev("attempt", 1) >>]]
    /\ UNCHANGED <<variant, href, language, dom, walker, lastIndex, BTC_USD_RATE,
                   passes, passDom, steps, guard, isEnabled, background>>

Invoke(i) == Start(i) /\ UNCHANGED <<handlers, initialEnabled, badge>>

\* variant B: chrome.storage.local.get resolves; the two early returns, then
\* the attribute is set and the fetch is made
StorageRead(i) ==
    /\ ~walker.active
    /\ inv[i].pc = "storage"
    /\ IF isEnabled = "false"
       THEN Return(i, << Ev("disabled", 0) >>) /\ guard' = guard
       ELSE IF hasAttribute
       THEN Return(i, << Ev("guarded", 0) >>) /\ guard' = guard
       ELSE Issue(i, 0, 0, <<>>) /\ guard' = TRUE
    /\ UNCHANGED <<variant, href, language, dom, walker, lastIndex, BTC_USD_RATE,
                   passes, passDom, steps, isEnabled, background, handlers, initialEnabled, badge>>

\* the fetch of an invocation settles and the code after the await runs up to
\* the next await or, through the whole of convertPricesToSats' set-up, to
\* the walk
FetchSettles(i) ==
    /\ ~walker.active
    /\ inv[i].pc = "fetch"
    /\ \E r \in Responses :
         CASE variant = "A" -> SettlesA(i, r)
           [] variant = "B" -> SettlesB(i, r)
           [] variant = "C" -> SettlesC(i, r)
    /\ UNCHANGED <<variant, href, language, dom, lastIndex, steps, guard, isEnabled,
                   background, handlers, initialEnabled, badge>>

\* the timer of a backoff wait fires
TimerFires(i) ==
    /\ ~walker.active
    /\ inv[i].pc = "wait"
    /\ CASE variant = "A" ->
                NextAttemptA(i, inv[i].attempt + 1, NextDelayA(inv[i].delay))
         [] variant = "C" ->
                NextAttemptC(i, inv[i].attempt + 1, <<>>) /\ UNCHANGED BTC_USD_RATE
    /\ UNCHANGED <<variant, href, language, dom, lastIndex, steps, guard, isEnabled,
                   background, handlers, initialEnabled, badge>>

(***************************************************************************)
(* The background scripts.  A handler is one run of a listener; tab 1 is   *)
(* the tab that shows the document, tab 2 another tab.                     *)
(***************************************************************************)
MaxHandlers == 2    \* runs of the background's listeners

Tabs == {1, 2}

\* a handler: the listener it runs (kind), where it is (pc), the tab and the
\* details of its event, the isEnabled it read, whether it has called
\* executeScript; and, of the script it started on the document (script, an
\* index of inv), the preference and the number of writes when it started
NoHandler ==
    [kind |-> "none", pc |-> "idle", tab |-> 0, read |-> "", frameId |-> 0,
     status |-> "", url |-> <<>>, requested |-> FALSE, script |-> 0,
     enabledAtStart |-> "", writesAtStart |-> 0]

Handler(kind, pc, read, frameId, status, url) ==
    [NoHandler EXCEPT !.kind = kind, !.pc = pc, !.tab = 1, !.read = read,
                      !.frameId = frameId, !.status = status, !.url = url,
                      !.requested = (pc = "exec")]

\* background A, tabs.onUpdated: the test of the event, the storage read and
\* if (isEnabled) setTimeout(..., 100)
onUpdatedA(status, url, enabled) ==
    IF /\ status = "complete"
       /\ url # <<>>
       /\ ~StartsWithAt(url, 1, <<"c", "h", "r", "o", "m", "e">>)
    THEN Handler("navigation", IF enabled = "true" THEN "timer" ELSE "done",
                 enabled, 0, status, url)
    ELSE Handler("navigation", "done", "", 0, status, url)

\* background B, webNavigation.onCompleted: the url test made when enabled
Restricted(url) ==
    \/ url = <<>>
    \/ StartsWithAt(url, 1, <<"c", "h", "r", "o", "m", "e", ":", "/", "/">>)
    \/ StartsWithAt(url, 1, <<"a", "b", "o", "u", "t", ":">>)
    \/ StartsWithAt(url, 1, <<"d", "a", "t", "a", ":">>)

\* background B, webNavigation.onCompleted: the frame test, the storage read,
\* the url test and the call of executeScript
onCompletedB(frameId, url, enabled) ==
    IF frameId # 0 THEN Handler("navigation", "done", "", frameId, "complete", url)
    ELSE Handler("navigation",
                 IF enabled = "true" /\ ~Restricted(url) THEN "exec" ELSE "done",
                 enabled, frameId, "complete", url)

\* the events a navigation of tab 1 brings: tabs.onUpdated reports a status
\* and no frame, webNavigation.onCompleted a frame
NavigationEvents ==
    IF background = "A"
    THEN {[frameId |-> 0, status |-> s] : s \in {"loading", "complete"}}
    ELSE {[frameId |-> f, status |-> "complete"] : f \in {0, 1}}

FirstIdle(h) ==
    /\ handlers[h].pc = "idle"
    /\ IF h = 1 THEN TRUE ELSE handlers[h - 1].pc # "idle"

\* the click handlers that have written the preference
Writes ==
    Cardinality({h \in DOMAIN handlers :
                    handlers[h].kind = "click" /\ handlers[h].pc \in {"exec", "done"}})

\* newState = !isEnabled, of the stored value or undefined
Negated(enabled) == IF enabled = "true" THEN "false" ELSE "true"

\* badgeText = isEnabled ? 'ON' : 'OFF'
BadgeText(enabled) == IF enabled = "true" THEN "ON" ELSE "OFF"

\* a navigation event of tab 1 reaches the listener, which runs through its
\* storage read up to the timer (A), the call of executeScript (B) or its end;
\* background A's listener sets the badge of the tab on the way
Navigation(h) ==
    /\ FirstIdle(h)
    /\ \E e \in NavigationEvents :
         /\ handlers' = [handlers EXCEPT ![h] =
            IF background = "A" THEN onUpdatedA(e.status, href, isEnabled)
            ELSE onCompletedB(e.frameId, href, isEnabled)]
         /\ badge' = IF background = "A" /\ handlers'[h].read # ""
                     THEN [badge EXCEPT ![1] = BadgeText(isEnabled)]
                     ELSE badge
    /\ UNCHANGED <<variant, href, language, dom, walker, lastIndex, BTC_USD_RATE,
                   passes, passDom, steps, inv, guard, isEnabled, background,
                   initialEnabled>>

\* background A: the 100 ms timer fires and executeScript is called
InjectTimer(h) ==
    /\ handlers[h].pc = "timer"
    /\ handlers' = [handlers EXCEPT ![h] =
                       [handlers[h] EXCEPT !.pc = "exec", !.requested = TRUE]]
    /\ UNCHANGED <<variant, href, language, dom, walker, lastIndex, BTC_USD_RATE,
                   passes, passDom, steps, inv, guard, isEnabled, background,
                   initialEnabled, badge>>

\* executeScript takes effect in tab 1: the content script starts on the
\* document (Chrome runs no script on a chrome:// page or on a tab without url)
ScriptStarts(h) ==
    /\ handlers[h].pc = "exec"
    /\ handlers[h].tab = 1
    /\ href # <<>>
    /\ ~StartsWithAt(href, 1, <<"c", "h", "r", "o", "m", "e", ":", "/", "/">>)
    /\ \E i \in 1..MaxInvocations :
          /\ Start(i)
          /\ handlers' = [handlers EXCEPT ![h] =
                [handlers[h] EXCEPT !.pc = "done", !.script = i,
                    !.enabledAtStart = isEnabled, !.writesAtStart = Writes]]
    /\ UNCHANGED <<initialEnabled, badge>>

\* executeScript is rejected (the catch of the handler), or it was called for
\* another tab: no script starts on the document
NoScriptHere(h) ==
    /\ handlers[h].pc = "exec"
    /\ handlers' = [handlers EXCEPT ![h] = [handlers[h] EXCEPT !.pc = "done"]]
    /\ UNCHANGED <<variant, href, language, dom, walker, lastIndex, BTC_USD_RATE,
                   passes, passDom, steps, inv, guard, isEnabled, background,
                   initialEnabled, badge>>

\* the listeners that only set the badge: tabs.onCreated, and background B's
\* tabs.onUpdated
BadgeListeners == IF background = "A" THEN {"created"} ELSE {"created", "updated"}

\* a tab is created or updated: the listener's storage read
TabEvent(h) ==
    /\ FirstIdle(h)
    /\ \E tab \in Tabs, kind \in BadgeListeners :
         handlers' = [handlers EXCEPT ![h] =
            [NoHandler EXCEPT !.kind = kind, !.pc = "badge", !.tab = tab,
                              !.read = isEnabled]]
    /\ UNCHANGED <<variant, href, language, dom, walker, lastIndex, BTC_USD_RATE,
                   passes, passDom, steps, inv, guard, isEnabled, background,
                   initialEnabled, badge>>

\* the listener after its read: setBadgeText for the tab of the event
SetBadge(h) ==
    /\ handlers[h].pc = "badge"
    /\ handlers' = [handlers EXCEPT ![h] = [handlers[h] EXCEPT !.pc = "done"]]
    /\ badge' = [badge EXCEPT ![handlers[h].tab] = BadgeText(handlers[h].read)]
    /\ UNCHANGED <<variant, href, language, dom, walker, lastIndex, BTC_USD_RATE,
                   passes, passDom, steps, inv, guard, isEnabled, background,
                   initialEnabled>>

\* action.onClicked for the icon of a tab: the handler's storage read
Click(h) ==
    /\ FirstIdle(h)
    /\ \E tab \in Tabs :
         handlers' = [handlers EXCEPT ![h] =
            [NoHandler EXCEPT !.kind = "click", !.pc = "set", !.tab = tab,
                              !.read = isEnabled]]
    /\ UNCHANGED <<variant, href, language, dom, walker, lastIndex, BTC_USD_RATE,
                   passes, passDom, steps, inv, guard, isEnabled, background,
                   initialEnabled, badge>>

\* the page of the extension's runs
ExtItems == << TextDesc(TxOne) >>

\* chrome.tabs.reload: the tab loads the page anew; the scripts of the old
\* document are gone with it
Reload(h, tab) ==
    IF tab = 1
    THEN /\ handlers' = [k \in DOMAIN handlers |->
                [handlers[k] EXCEPT !.pc = IF k = h THEN "done" ELSE handlers[k].pc,
                                    !.script = 0]]
         /\ dom' = Page(variant, ExtItems)
         /\ passDom' = Page(variant, ExtItems)
         /\ walker' = IdleWalker
         /\ lastIndex' = 0
         /\ BTC_USD_RATE' = 0
         /\ passes' = 0
         /\ steps' = <<>>
         /\ inv' = [i \in 1..MaxInvocations |-> Fresh]
         /\ guard' = FALSE
    ELSE /\ handlers' = [handlers EXCEPT ![h] = [handlers[h] EXCEPT !.pc = "done"]]
         /\ UNCHANGED <<dom, walker, lastIndex, BTC_USD_RATE, passes, passDom,
                        steps, inv, guard>>

\* action.onClicked after the read: newState = !isEnabled is stored and shown
\* on the badge of the tab; then background A calls executeScript when newState is true and reloads the tab
\* when it is false, background B reloads the tab
ClickWrite(h) ==
    /\ handlers[h].kind = "click"
    /\ handlers[h].pc = "set"
    /\ isEnabled' = Negated(handlers[h].read)
    /\ badge' = [badge EXCEPT ![handlers[h].tab] = BadgeText(isEnabled')]
    /\ IF background = "A" /\ handlers[h].read # "true"
       THEN /\ handlers' = [handlers EXCEPT ![h] =
                   [handlers[h] EXCEPT !.pc = "exec", !.requested = TRUE]]
            /\ UNCHANGED <<dom, walker, lastIndex, BTC_USD_RATE, passes, passDom,
                           steps, inv, guard>>
       ELSE Reload(h, handlers[h].tab)
    /\ UNCHANGED <<variant, href, language, background, initialEnabled>>

(***************************************************************************)
(* Specifications                                                          *)
(***************************************************************************)
vars == <<variant, href, language, dom, walker, lastIndex, BTC_USD_RATE, passes,
          passDom, steps, inv, guard, isEnabled, background, handlers, initialEnabled, badge>>

\* the rewriter alone: convertPricesToSats called on a page, rate in hand
InitRewrite ==
    /\ variant \in {"A", "B", "C"}
    /\ \E page \in Pages :
          /\ href = page.href
          /\ language = page.language
          /\ dom = Page(variant, page.items)
    /\ walker = IdleWalker
    /\ lastIndex = 0
    /\ BTC_USD_RATE = 0
    /\ passes = 0
    /\ passDom = dom
    /\ steps = <<>>
    /\ inv = [i \in 1..MaxInvocations |-> Fresh]
    /\ guard = FALSE
    /\ isEnabled = "true"
    /\ background = "A"
    /\ handlers = [h \in 1..MaxHandlers |-> NoHandler]
    /\ initialEnabled = isEnabled
    /\ badge = [tab \in Tabs |-> ""]

CallConvert ==
    /\ ~walker.active
    /\ passes < MaxPasses
    /\ \E rate \in Rates :
        /\ BTC_USD_RATE' = IF variant = "A" THEN rate ELSE BTC_USD_RATE
        /\ BeginPass(rate, IF variant = "C"
                           THEN approximateDollarCurrencyC(href, textContent(dom, 1))
                           ELSE "", 0)
    /\ UNCHANGED <<variant, href, language, dom, lastIndex, steps, inv, guard, isEnabled,
                   background, handlers, initialEnabled, badge>>

NextRewrite == CallConvert \/ WalkNode \/ WalkEnd

SpecRewrite == InitRewrite /\ [][NextRewrite]_vars

\* the content script from its entry point
EntryLayouts ==
    { << TextDesc(TxTwo) >>,
      << Wrap("DIV", TextDesc(TxOne)), TextDesc(TxPlain) >> }

Init ==
    /\ variant \in {"A", "B", "C"}
    /\ href \in Hrefs
    /\ language \in Languages
    /\ \E items \in EntryLayouts : dom = Page(variant, items)
    /\ walker = IdleWalker
    /\ lastIndex = 0
    /\ BTC_USD_RATE = 0
    /\ passes = 0
    /\ passDom = dom
    /\ steps = <<>>
    /\ inv = [i \in 1..MaxInvocations |-> Fresh]
    /\ guard = FALSE
    /\ isEnabled \in {"true", "false", "undefined"}
    /\ background = "A"
    /\ handlers = [h \in 1..MaxHandlers |-> NoHandler]
    /\ initialEnabled = isEnabled
    /\ badge = [tab \in Tabs |-> ""]

Next ==
    \/ \E i \in 1..MaxInvocations : Invoke(i)
    \/ \E i \in 1..MaxInvocations : StorageRead(i)
    \/ \E i \in 1..MaxInvocations : FetchSettles(i)
    \/ \E i \in 1..MaxInvocations : TimerFires(i)
    \/ WalkNode
    \/ WalkEnd

Spec == Init /\ [][Next]_vars

\* the extension: the background script's listeners start the content script
ExtHrefs ==
    { <<"x", ".", "c", "o", "m">>,
      <<"c", "h", "r", "o", "m", "e", ":", "/", "/", "x">>,
      <<"a", "b", "o", "u", "t", ":", "x">>,
      <<"d", "a", "t", "a", ":", "x">>,
      <<>> }

InitExtension ==
    /\ variant \in {"A", "B", "C"}
    /\ href \in ExtHrefs
    /\ language \in Languages
    /\ dom = Page(variant, ExtItems)
    /\ walker = IdleWalker
    /\ lastIndex = 0
    /\ BTC_USD_RATE = 0
    /\ passes = 0
    /\ passDom = dom
    /\ steps = <<>>
    /\ inv = [i \in 1..MaxInvocations |-> Fresh]
    /\ guard = FALSE
    /\ isEnabled \in {"true", "false", "undefined"}
    /\ background \in {"A", "B"}
    /\ handlers = [h \in 1..MaxHandlers |-> NoHandler]
    /\ initialEnabled = isEnabled
    /\ badge = [tab \in Tabs |-> ""]

NextExtension ==
    \/ \E h \in 1..MaxHandlers : Navigation(h)
    \/ \E h \in 1..MaxHandlers : InjectTimer(h)
    \/ \E h \in 1..MaxHandlers : ScriptStarts(h)
    \/ \E h \in 1..MaxHandlers : NoScriptHere(h)
    \/ \E h \in 1..MaxHandlers : Click(h)
    \/ \E h \in 1..MaxHandlers : ClickWrite(h)
    \/ \E h \in 1..MaxHandlers : TabEvent(h)
    \/ \E h \in 1..MaxHandlers : SetBadge(h)
    \/ \E i \in 1..MaxInvocations : StorageRead(i)
    \/ \E i \in 1..MaxInvocations : FetchSettles(i)
    \/ \E i \in 1..MaxInvocations : TimerFires(i)
    \/ WalkNode
    \/ WalkEnd

SpecExtension == InitExtension /\ [][NextExtension]_vars

(***************************************************************************)
(* Properties                                                              *)
(***************************************************************************)
Last(seq) == seq[Len(seq)]

\* the text nodes a pass over passDom is to visit: those below the root that
\* the walker's filter accepts
Eligible ==
    {n \in Subtree(passDom, walker.root) :
        passDom[n].kind = "text" /\ acceptNode(variant, passDom, n)}

Visited == {steps[k].node : k \in {j \in 1..Len(steps) : steps[j].pass = passes}}

ConvertedClasses == {"bitcoin-price-converted", "btc-converted-price", "bitcoin-price"}

InsideConverted(st) == \E a \in st.within : a[2] \in ConvertedClasses

\* C2: a second pass over the same root replaces no node, and tests the
\* text of no replacement element against the pattern
C2_SecondPassIdle ==
    \A k \in 1..Len(steps) :
        steps[k].pass > 1 =>
            /\ ~steps[k].replaced
            /\ InsideConverted(steps[k]) => ~steps[k].scanned

\* the same of variant A alone, whose loop skips the children of converted
\* elements
C2_SecondPassIdleA == variant = "A" => C2_SecondPassIdle

PastGuard(i) == inv[i].pc \in {"fetch", "wait", "pass"} \/ inv[i].settled

Guarded(i) == inv[i].pc = "done" /\ inv[i].log = << Ev("guarded", 0) >>

Inserted(st) == [k \in 1..Len(st.inserted) |-> dom[st.inserted[k]]]

Elements(nodes) == SelectSeq(nodes, LAMBDA n : n.kind = "element")

\* the k-th element of the sequence stands for the k-th token
RECURSIVE Unsplice(_, _)
Unsplice(nodes, tokens) ==
    IF nodes = <<>> THEN <<>>
    ELSE IF Head(nodes).kind = "text" THEN Head(nodes).text \o Unsplice(Tail(nodes), tokens)
    ELSE IF tokens = <<>> THEN <<"?">> \o Unsplice(Tail(nodes), tokens)
    ELSE Head(tokens).fullMatch \o Unsplice(Tail(nodes), Tail(tokens))

\* C4: a node with k >= 1 valid tokens is replaced, by a sequence holding
\* exactly k elements, and putting each token's matched text back in the
\* place of its element gives the node's original text
C4_SpliceKeepsText ==
    \A k \in 1..Len(steps) :
        steps[k].tokens # <<>> =>
            /\ steps[k].replaced
            /\ Len(Elements(Inserted(steps[k]))) = Len(steps[k].tokens)
            /\ Unsplice(Inserted(steps[k]), steps[k].tokens) = steps[k].text

C4_SpliceKeepsTextA == variant = "A" => C4_SpliceKeepsText

InsideExcluded(st) ==
    \E a \in st.within : a[1] \in {"SCRIPT", "STYLE", "A"} \/ a[2] \in ConvertedClasses

\* C5: no text that has a script, style or A element, or a converted element,
\* among its ancestors is tested against the pattern or replaced
C5_ExcludedUntouched ==
    \A k \in 1..Len(steps) :
        InsideExcluded(steps[k]) => ~steps[k].scanned /\ ~steps[k].replaced

\* C6: a node whose scan gives no valid token is not replaced
C6_NoTokenNoReplace ==
    \A k \in 1..Len(steps) : steps[k].tokens = <<>> => ~steps[k].replaced

C6_NoTokenNoReplaceA == variant = "A" => C6_NoTokenNoReplace

Events(i, ev) == SelectSeq(inv[i].log, LAMBDA e : e.ev = ev)

Attempts(i) == Len(Events(i, "attempt"))

\* the attempts the loop of the loaded variant allows
AttemptsAllowed == IF variant = "B" THEN 1 ELSE 3

\* the provider has nothing left to try: an attempt succeeded or the last
\* one failed
Exhausted(i) ==
    \/ Events(i, "ok") # <<>>
    \/ Len(Events(i, "fail")) = AttemptsAllowed

\* C7: a pass is made only by an invocation whose rate fetch has settled,
\* all its attempts and waits over, and every step of the pass uses the one
\* rate the fetch settled to; until some fetch has settled the tree is as it
\* was (the guard attribute that variant B sets on document.body before its
\* fetch is kept in `guard`, it is no node of the tree)
C7_PassAfterSettle ==
    /\ \A i \in DOMAIN inv :
          /\ inv[i].settled =>
                /\ Exhausted(i)
                /\ Last(inv[i].log).ev = "settled"
                /\ Last(inv[i].log).n = inv[i].rate
          /\ inv[i].pc = "pass" => inv[i].settled /\ walker.by = i
    /\ walker.active =>
          /\ walker.by \in DOMAIN inv
          /\ inv[walker.by].pc = "pass"
          /\ walker.rate = inv[walker.by].rate
          /\ walker.rate # 0
    /\ \A k \in 1..Len(steps) :
          /\ steps[k].by \in DOMAIN inv
          /\ inv[steps[k].by].settled
          /\ steps[k].rate = inv[steps[k].by].rate
    /\ (\A i \in DOMAIN inv : ~inv[i].settled) => (passes = 0 /\ dom = passDom)

\* an invocation that waited between attempts has replaced a node
C7_Witness ==
    \E k \in 1..Len(steps) :
        /\ steps[k].replaced
        /\ Events(steps[k].by, "wait") # <<>>

AllFailed(i) == inv[i].settled /\ Events(i, "ok") = <<>>

MadePass(i) == inv[i].pc = "pass" \/ \E k \in 1..Len(steps) : steps[k].by = i

\* C8 as amended: when every attempt has failed, the provider of variant C
\* returns the fallback constant, a positive rate, and the pass is made with
\* it; the provider of variant A returns null and the single fetch of
\* variant B leaves no rate, and in both the entry point returns without a
\* pass
C8_FallbackOrAbort ==
    \A i \in DOMAIN inv :
        AllFailed(i) =>
            IF variant = "C"
            THEN /\ inv[i].rate = FALLBACK_BTC_USD_RATE
                 /\ inv[i].rate > 0
                 /\ MadePass(i)
                 /\ \A k \in 1..Len(steps) :
                        steps[k].by = i => steps[k].rate = FALLBACK_BTC_USD_RATE
            ELSE /\ inv[i].rate = 0
                 /\ inv[i].pc = "done"
                 /\ ~MadePass(i)

\* in variant C all three attempts failed and a node has been replaced at the
\* fallback rate
C8_Witness ==
    /\ variant = "C"
    /\ \E i \in DOMAIN inv :
          /\ AllFailed(i)
          /\ Len(Events(i, "fail")) = 3
          /\ \E k \in 1..Len(steps) :
                steps[k].by = i /\ steps[k].replaced
                /\ steps[k].rate = FALLBACK_BTC_USD_RATE

\* C8 as stated: when every attempt has failed the provider has returned a
\* positive rate and the pass is made
C8_AlwaysARate ==
    \A i \in DOMAIN inv : AllFailed(i) => inv[i].rate > 0 /\ MadePass(i)

Before(log, k, ev) == \E j \in 1..(k - 1) : log[j].ev = ev

\* C9: one call of the provider makes at most 3 attempts, none after an
\* attempt that succeeded, and has settled with a result as soon as an
\* attempt has succeeded or the third has failed (in variant C an attempt
\* has succeeded when its reply holds a usable price: the search of the
\* reply is inside the try of the loop)
C9_AtMostThreeAttempts ==
    \A i \in DOMAIN inv :
        /\ Attempts(i) <= 3
        /\ \A k \in 1..Len(inv[i].log) :
              inv[i].log[k].ev = "attempt" => ~Before(inv[i].log, k, "ok")
        /\ (Events(i, "ok") # <<>> \/ Len(Events(i, "fail")) = 3) => inv[i].settled
        /\ inv[i].pc \in {"fetch", "wait"} => ~inv[i].settled

\* a call whose three attempts all failed has settled, and another settled
\* on its second attempt
C9_Witness ==
    /\ \E i \in DOMAIN inv : AllFailed(i) /\ Attempts(i) = 3
    /\ \E i \in DOMAIN inv :
          inv[i].settled /\ Attempts(i) = 2 /\ Events(i, "ok") # <<>>

BaseDelay == IF variant = "A" THEN InitialDelayA ELSE DelayC(0)

FirstValid(list) ==
    Least({k \in 1..Len(list) :
             /\ list[k].QUOTE \in {"USD", "USDT", "FDUSD"}
             /\ list[k].PRICE.type = "number"
             /\ list[k].PRICE.n > 0})

\* a reply without the expected price: a network failure, a status that is
\* not ok, a body that is not JSON, a list without a valid entry
Failure(r) ==
    \/ r.kind \in {"throw", "status", "parse"}
    \/ r.kind = "json" /\ FirstValid(r.list) = 0

Outcomes(i) == SelectSeq(inv[i].log, LAMBDA e : e.ev \in {"ok", "fail"})

\* C11: whichever failure a fetch came to (network failure, status not ok,
\* price field malformed or absent), the attempt is counted as failed and,
\* when the loop has attempts left, the provider waits to retry
C11_FailuresAlike ==
    \A i \in DOMAIN inv :
        Failure(inv[i].reply) =>
            /\ Last(Outcomes(i)).ev = "fail"
            /\ Last(Outcomes(i)).n < AttemptsAllowed =>
                  (inv[i].pc = "wait" /\ Last(inv[i].log).ev = "wait")

\* the same of variant C, whose search of the reply is inside the try, and of
\* variant B but for a negative price, which it takes as a rate
C11_FailuresAlikeBC ==
    \A i \in DOMAIN inv :
        (/\ variant # "A"
         /\ Failure(inv[i].reply)
         /\ variant = "B" => inv[i].reply.list # ListNegative) =>
            /\ Last(Outcomes(i)).ev = "fail"
            /\ Last(Outcomes(i)).n < AttemptsAllowed =>
                  (inv[i].pc = "wait" /\ Last(inv[i].log).ev = "wait")

\* C12: when the list of a reply holds an entry with an accepted quote
\* currency and a positive price, the provider returns the price of the first
\* such entry, whatever the entries before it
C12_FirstValidSelected ==
    \A i \in DOMAIN inv :
        (inv[i].reply.kind = "json" /\ FirstValid(inv[i].reply.list) # 0) =>
            /\ inv[i].settled
            /\ inv[i].rate = inv[i].reply.list[FirstValid(inv[i].reply.list)].PRICE.n

\* C13: the attribute data-btc-converter-active is on document.body only when
\* an invocation that got past the guard makes the pass (its fetch still
\* pending, or the pass begun)
C13_FlagOnlyWithPass ==
    guard => \E i \in DOMAIN inv :
                /\ PastGuard(i)
                /\ inv[i].pc = "fetch" \/ MadePass(i)

\* C14: the background calls executeScript only when the preference it read
\* allows it (a navigation handler read true, a click handler has just stored
\* true), and a content script that started while the stored preference was
\* false makes no pass as long as the preference has not been written again
C14_DisabledNeverRuns ==
    /\ \A h \in DOMAIN handlers :
          handlers[h].requested =>
              IF handlers[h].kind = "click" THEN handlers[h].read # "true"
              ELSE handlers[h].read = "true"
    /\ \A h \in DOMAIN handlers :
          (/\ handlers[h].script # 0
           /\ handlers[h].enabledAtStart = "false"
           /\ handlers[h].writesAtStart = Writes)
              => ~MadePass(handlers[h].script)

\* the same of content-script variant B, whose main block reads isEnabled
C14_DisabledNeverRunsB == variant = "B" => C14_DisabledNeverRuns

\* an internal or restricted URL
InternalUrl(url) ==
    \E prefix \in { <<"c", "h", "r", "o", "m", "e", ":", "/", "/">>,
                     <<"a", "b", "o", "u", "t", ":">>,
                     <<"d", "a", "t", "a", ":">> } : StartsWithAt(url, 1, prefix)

\* C15: a navigation handler calls executeScript only for the completed
\* navigation of frame 0 whose URL is present and neither chrome://, about:
\* nor data:
C15_OnlyEligibleNavigation ==
    \A h \in DOMAIN handlers :
        (handlers[h].kind = "navigation" /\ handlers[h].requested) =>
            /\ handlers[h].frameId = 0
            /\ handlers[h].status = "complete"
            /\ handlers[h].url # <<>>
            /\ ~InternalUrl(handlers[h].url)

\* the same of background B, whose listener is webNavigation.onCompleted
C15_OnlyEligibleNavigationB == background = "B" => C15_OnlyEligibleNavigation


(***************************************************************************)
(* The amounts shown                                                       *)
(***************************************************************************)
\* the price elements an iteration put into the document
Spans(st) == Elements(Inserted(st))

\* the text a price element shows
ShownText(span) == dom[span.kids[1]].text

EndsWith(t, w) == Len(t) >= Len(w) /\ StartsWithAt(t, Len(t) - Len(w) + 1, w)

Unit(t) ==
    IF EndsWith(t, <<" ", "₿">>) THEN "btc"
    ELSE IF EndsWith(t, <<" ", "s", "a", "t", "s">>) THEN "sats"
    ELSE "none"

\* the digits of a shown amount read as one integer: the satoshis of the
\* satoshi form, the ten-thousandths of a bitcoin of the bitcoin form
Amount(t) == DigitsToInt(SelectSeq(t, LAMBDA c : c \in Digits))

UnitFits(t) ==
    CASE Unit(t) = "btc" -> Amount(t) >= SAT_THRESHOLD \div 10000
      [] Unit(t) = "sats" -> Amount(t) < SAT_THRESHOLD
      [] OTHER -> FALSE

Usd25000 == <<"$", "2", "5", ",", "0", "0", "0">>
UsdBelow25000 == <<"$", "2", "4", ",", "9", "9", "9", ".", "9", "9", "9", "5">>
HalfBitcoin == <<"0", ".", "5", "0", "0", "0", " ", "₿">>
HalfBitcoinLessOne ==
    <<"4", "9", ",", "9", "9", "9", ",", "9", "9", "9", " ", "s", "a", "t", "s">>

\* span is the conversion of the US-dollar price original at 50000 $/BTC
UsdAt50000(st, span, original) ==
    /\ st.rate = 50000
    /\ span.title.currency = "USD"
    /\ span.title.original = original

\* C16: every converted token is shown in one of the two units, as bitcoin
\* when the amount is at least 50,000,000 satoshis (0.5 BTC) and as satoshis
\* when it is less; the price worth exactly 50,000,000 satoshis shows as
\* "0.5000 ₿" and the price worth 49,999,999 satoshis as "49,999,999 sats"
C16_ThresholdBoundary ==
    \A k \in 1..Len(steps) : \A n \in 1..Len(Spans(steps[k])) :
        /\ UnitFits(ShownText(Spans(steps[k])[n]))
        /\ UsdAt50000(steps[k], Spans(steps[k])[n], Usd25000)
              => ShownText(Spans(steps[k])[n]) = HalfBitcoin
        /\ UsdAt50000(steps[k], Spans(steps[k])[n], UsdBelow25000)
              => ShownText(Spans(steps[k])[n]) = HalfBitcoinLessOne

\* both prices of the boundary have been converted
C16_Witness ==
    \E k \in 1..Len(steps) :
        /\ \E n \in 1..Len(Spans(steps[k])) :
              /\ UsdAt50000(steps[k], Spans(steps[k])[n], Usd25000)
              /\ ShownText(Spans(steps[k])[n]) = HalfBitcoin
        /\ \E n \in 1..Len(Spans(steps[k])) :
              /\ UsdAt50000(steps[k], Spans(steps[k])[n], UsdBelow25000)
              /\ ShownText(Spans(steps[k])[n]) = HalfBitcoinLessOne

(***************************************************************************)
(* The conversion                                                          *)
(***************************************************************************)
\* the factors the specification gives: of the dollar currencies by their
\* code, of the euro and of the pound
UsdFactor(symbol, code) ==
    CASE symbol = "€" -> Dec(108, -2)
      [] symbol = "£" -> Dec(125, -2)
      [] code = "CAD" -> Dec(73, -2)
      [] code = "AUD" -> Dec(65, -2)
      [] code = "NZD" -> Dec(60, -2)
      [] code = "SGD" -> Dec(74, -2)
      [] OTHER -> Dec(100, -2)

\* the number a variant reads from a token
NumericValue(m) ==
    CASE variant = "A" -> parsePriceMagnitudeA(m.priceString, m.magnitudeWord)
      [] variant = "B" -> parsePriceMagnitudeB(m.priceString, m.magnitudeWord)
      [] OTHER -> ParseFloat(Remove(m.priceString, {","}))

\* round(numericValue * usdFactor * 100,000,000 / btcUsd), as it is shown
Expected(m, code, btcUsd) ==
    FormatSatoshis(RoundQuotient(
        DecMul(DecMul(NumericValue(m), UsdFactor(m.currencySymbol, code)),
               Dec(SATOSHIS_PER_BTC, 0)),
        Dec(btcUsd, 0)))

Usd100 == <<"$", "1", "0", "0">>
Gbp50 == <<"£", "5", "0">>
Sats200000 == <<"2", "0", "0", ",", "0", "0", "0", " ", "s", "a", "t", "s">>
Sats125000 == <<"1", "2", "5", ",", "0", "0", "0", " ", "s", "a", "t", "s">>

\* the n-th price element of an iteration shows the satoshis of its token
ShowsExpected(st, n) ==
    /\ ShownText(Spans(st)[n])
          = Expected(st.tokens[n], Spans(st)[n].title.currency, st.rate)
    /\ (st.rate = 50000 /\ Spans(st)[n].title.original = Usd100
           /\ Spans(st)[n].title.currency = "USD")
          => ShownText(Spans(st)[n]) = Sats200000
    /\ (st.rate = 50000 /\ Spans(st)[n].title.original = Gbp50)
          => ShownText(Spans(st)[n]) = Sats125000

\* C17: every converted token shows round(numericValue * usdFactor *
\* 100,000,000 / btcUsd) satoshis, usdFactor being the factor of the classified
\* dollar currency for "$", 1.08 for the euro and 1.25 for the pound; at
\* 50000 $/BTC "$100" classified USD shows 200,000 sats and "£50" 125,000 sats
C17_SatoshisByFactor ==
    \A k \in 1..Len(steps) :
        Len(Spans(steps[k])) = Len(steps[k].tokens) =>
            \A n \in 1..Len(Spans(steps[k])) : ShowsExpected(steps[k], n)

\* the variants that multiply by a currency factor
C17_SatoshisByFactorAC == variant # "B" => C17_SatoshisByFactor

(***************************************************************************)
(* The classification of the dollar                                        *)
(***************************************************************************)
DollarNames ==
    [AUD |-> <<"A","U","S","T","R","A","L","I","A","N"," ","D","O","L","L","A","R">>,
     CAD |-> <<"C","A","N","A","D","I","A","N"," ","D","O","L","L","A","R">>,
     NZD |-> <<"N","E","W"," ","Z","E","A","L","A","N","D"," ","D","O","L","L","A","R">>,
     SGD |-> <<"S","I","N","G","A","P","O","R","E"," ","D","O","L","L","A","R">>]

CodeChars ==
    [AUD |-> <<"A","U","D">>, CAD |-> <<"C","A","D">>, NZD |-> <<"N","Z","D">>,
     SGD |-> <<"S","G","D">>]

\* the visible text holds a keyword of the currency
Names(text, code) ==
    \/ Includes(ToUpperCase(text), DollarNames[code])
    \/ Includes(ToUpperCase(text), CodeChars[code])

\* the text names this currency and no other
NamesOnly(text, code) ==
    /\ code \in DOMAIN CodeChars
    /\ Names(text, code)
    /\ \A other \in DOMAIN CodeChars \ {code} : ~Names(text, other)

\* the price elements of "$" tokens an iteration put into the document
DollarSpans(st) ==
    SelectSeq(Spans(st), LAMBDA e : e.title.original # <<>> /\ e.title.original[1] = "$")

\* C18: a currency keyword in the page text decides the classification
\* before the address and the locale do: when the text of the page names one
\* dollar currency, every "$" token of the pass is classified as that currency,
\* whatever the hostname or the locale indicates
C18_TextKeywordWins ==
    \A k \in 1..Len(steps) : \A code \in DOMAIN CodeChars :
        (steps[k].pass = passes /\ NamesOnly(textContent(passDom, 1), code)) =>
            \A n \in 1..Len(DollarSpans(steps[k])) :
                DollarSpans(steps[k])[n].title.currency = code

\* variant C on an address without a country: the text decides
C18_TextKeywordWinsCPlain ==
    (variant = "C" /\ href = PlainHref) => C18_TextKeywordWins

\* the currencies the "$" tokens of an iteration were classified as
DollarCurrencies(st) ==
    {DollarSpans(st)[n].title.currency : n \in 1..Len(DollarSpans(st))}

\* C19: the classification is made once for a pass and is the same for every
\* token of it: all "$" tokens converted in one pass carry the same currency,
\* the signals are not read again while the pass changes the tree
C19_OneClassificationPerPass ==
    \A j \in 1..Len(steps) : \A k \in 1..Len(steps) :
        steps[j].pass = steps[k].pass =>
            Cardinality(DollarCurrencies(steps[j]) \cup DollarCurrencies(steps[k])) <= 1

\* the variants whose classification does not read the text again
C19_OneClassificationPerPassAC == variant # "B" => C19_OneClassificationPerPass

\* the classification of the page as it is now
Classified ==
    CASE variant = "A" -> approximateDollarCurrencyA(href, language).name
      [] variant = "B" -> approximateDollarCurrencyB(href, language, textContent(dom, 1))
      [] OTHER -> approximateDollarCurrencyC(href, textContent(dom, 1))

UrlSignals ==
    { <<".","a","u">>, <<".","c","a">>, <<".","n","z">>,
      <<"a","u","s","t","r","a","l","i","a">>, <<"c","a","n","a","d","a">>,
      <<"n","e","w","-","z","e","a","l","a","n","d">>,
      <<"n","e","w","z","e","a","l","a","n","d">>,
      <<"s","i","n","g","a","p","o","r","e">> }

LocaleSignals == { <<"e","n","-","a","u">>, <<"e","n","-","c","a">>, <<"e","n","-","n","z">> }

\* neither the address nor the locale nor the text of the page has a signal
NoSignal ==
    /\ \A w \in UrlSignals : ~Includes(ToLowerCase(href), w)
    /\ \A w \in LocaleSignals : ~Includes(ToLowerCase(language), w)
    /\ \A code \in DOMAIN CodeChars : ~Names(textContent(dom, 1), code)
    /\ ~Includes(textContent(dom, 1), <<"C","D","N">>)

\* the n-th price element of an iteration, if of a "$" token, is in US
\* dollars and shows the amount of the factor 1.00
DollarAsUsd(st, n) ==
    Spans(st)[n].title.original[1] = "$" =>
        /\ Spans(st)[n].title.currency = "USD"
        /\ ShownText(Spans(st)[n]) = Expected(st.tokens[n], "USD", st.rate)

\* C20: whatever the address, the locale and the text of the page are, the
\* classifier returns one of the dollar currencies; when none of the three has
\* a signal it returns USD, and the "$" tokens are converted with factor 1.00
C20_ClassifierTotal ==
    /\ Classified \in DOMAIN CodeChars \cup {"USD"}
    /\ NoSignal =>
          /\ Classified = "USD"
          /\ \A k \in 1..Len(steps) :
                Len(Spans(steps[k])) = Len(steps[k].tokens) =>
                    \A n \in 1..Len(Spans(steps[k])) : DollarAsUsd(steps[k], n)

\* a "$" token of a page without a signal has been converted
C20_Witness ==
    /\ NoSignal
    /\ Classified = "USD"
    /\ \E k \in 1..Len(steps) :
          /\ Len(Spans(steps[k])) = Len(steps[k].tokens)
          /\ \E n \in 1..Len(Spans(steps[k])) :
                /\ Spans(steps[k])[n].title.original[1] = "$"
                /\ Spans(steps[k])[n].title.currency = "USD"
                /\ ShownText(Spans(steps[k])[n])
                      = Expected(steps[k].tokens[n], "USD", steps[k].rate)

(***************************************************************************)
(* The tokens of a scan                                                    *)
(***************************************************************************)
PatternOf ==
    CASE variant = "A" -> PRICE_REGEX_A
      [] variant = "B" -> PRICE_REGEX_B
      [] OTHER -> priceRegexC

\* every match of the pattern in the text of an iteration, left to right
Matches(st) == ScanFrom(PatternOf, st.text, 1)

\* the matches whose numeral cannot be read, and the others
Unparsed(st) == SelectSeq(Matches(st), LAMBDA m : NumericValue(m).nan)

Parsed(st) == SelectSeq(Matches(st), LAMBDA m : ~NumericValue(m).nan)

\* the nodes that stand where the node of the iteration stood
Standing(st) == IF st.replaced THEN Inserted(st) ELSE << dom[st.node] >>

ShowsAmounts(nodes) ==
    \A n \in 1..Len(nodes) :
        nodes[n].kind = "element" => Unit(ShownText(nodes[n])) # "none"

\* C21: a token whose numeral cannot be read is left as the text it was and
\* does not stop the scan: the other tokens of the node are all converted,
\* each to one element showing an amount, and the rest of the text is kept
C21_UnparsedDropped ==
    \A k \in 1..Len(steps) :
        (steps[k].scanned /\ Unparsed(steps[k]) # <<>>) =>
            /\ steps[k].tokens = Parsed(steps[k])
            /\ Len(Elements(Standing(steps[k]))) = Len(Parsed(steps[k]))
            /\ Unsplice(Standing(steps[k]), Parsed(steps[k])) = steps[k].text
            /\ ShowsAmounts(Standing(steps[k]))

\* a node with a numeral that cannot be read before and after one that can
C21_Witness ==
    \E k \in 1..Len(steps) :
        /\ steps[k].scanned
        /\ Len(Unparsed(steps[k])) = 2
        /\ Len(Parsed(steps[k])) = 1
        /\ Len(Elements(Standing(steps[k]))) = 1
        /\ Unsplice(Standing(steps[k]), Parsed(steps[k])) = steps[k].text

\* the magnitude table of the specification
Multiplier(word) ==
    CASE word = <<>> -> Dec(1, 0)
      [] word = <<"h","u","n","d","r","e","d">> -> Dec(1, 2)
      [] word \in { <<"t","h","o","u","s","a","n","d">>, <<"k">> } -> Dec(1, 3)
      [] word \in { <<"m","i","l","l","i","o","n">>, <<"m">> } -> Dec(1, 6)
      [] word \in { <<"b","i","l","l","i","o","n">>, <<"b">> } -> Dec(1, 9)
      [] word \in { <<"t","r","i","l","l","i","o","n">>, <<"t">> } -> Dec(1, 12)
      [] OTHER -> Dec(1, 0)

\* the numeral without commas and spaces, times the multiplier of the word
Magnitude(m) ==
    DecMul(ParseFloat(Remove(m.priceString, {",", " "})),
           Multiplier(ToLowerCase(m.magnitudeWord)))

\* what a price of that many US dollars shows
ShownForUsd(value, btcUsd) ==
    FormatSatoshis(RoundQuotient(DecMul(value, Dec(SATOSHIS_PER_BTC, 0)), Dec(btcUsd, 0)))

\* the n-th price element of an iteration, if a "$" classified USD, shows the
\* amount of its token's numeral and magnitude
ShowsMagnitude(st, n) ==
    (Spans(st)[n].title.original[1] = "$" /\ Spans(st)[n].title.currency = "USD") =>
        ShownText(Spans(st)[n]) = ShownForUsd(Magnitude(st.tokens[n]), st.rate)

\* the node with that text became one price element, of that many US dollars
OneSpanOf(st, text, value) ==
    (st.text = text /\ st.scanned) =>
        /\ Len(Spans(st)) = 1
        /\ \A n \in 1..Len(Inserted(st)) : Inserted(st)[n].kind = "element"
        /\ ShownText(Spans(st)[1]) = ShownForUsd(value, st.rate)

\* C22: the value of a token is its numeral with the commas and spaces that
\* group its digits removed, times the multiplier of its magnitude word:
\* "$1,234.50" is 1234.50, "$5 thousand" is 5000 and "$1 000" is 1000
C22_NumeralAndMagnitude ==
    \A k \in 1..Len(steps) :
        /\ Len(Spans(steps[k])) = Len(steps[k].tokens) =>
              \A n \in 1..Len(Spans(steps[k])) : ShowsMagnitude(steps[k], n)
        /\ OneSpanOf(steps[k], TxGrouped, Dec(123450, -2))
        /\ OneSpanOf(steps[k], TxThousand, Dec(5000, 0))
        /\ OneSpanOf(steps[k], TxSpaced, Dec(1000, 0))

\* the variant whose parsePriceMagnitude removes commas and spaces
C22_NumeralAndMagnitudeA == variant = "A" => C22_NumeralAndMagnitude

\* the prices with a magnitude word and what they are worth in dollars
MagnitudePrices ==
    { [text |-> TxHundred, value |-> Dec(200, 0)],
      [text |-> TxThousand, value |-> Dec(5000, 0)],
      [text |-> TxK, value |-> Dec(5000, 0)],
      [text |-> TxMillion, value |-> Dec(10000, 0)],
      [text |-> TxM, value |-> Dec(10000, 0)],
      [text |-> TxBillion, value |-> Dec(10000, 0)],
      [text |-> TxB, value |-> Dec(10000, 0)],
      [text |-> TxTrillion, value |-> Dec(10000, 0)],
      [text |-> TxT, value |-> Dec(10000, 0)] }

\* the word of the price is part of its token and its multiplier is applied
KeyApplied(st, p) ==
    (st.text = p.text /\ st.scanned) =>
        /\ Len(st.tokens) = 1
        /\ st.tokens[1].fullMatch = p.text
        /\ st.tokens[1].magnitudeWord # <<>>
        /\ OneSpanOf(st, p.text, p.value)

KeysApplied(prices) ==
    \A k \in 1..Len(steps) : \A p \in prices : KeyApplied(steps[k], p)

\* the n-th price element of an iteration, of a "$" token classified USD
\* without a magnitude word, with digits and a point only, shows its numeral
ShowsNumeral(st, n) ==
    (/\ Spans(st)[n].title.original[1] = "$"
     /\ Spans(st)[n].title.currency = "USD"
     /\ st.tokens[n].magnitudeWord = <<>>
     /\ \A c \in 1..Len(st.tokens[n].priceString) :
           st.tokens[n].priceString[c] \in Digits \cup {"."}) =>
        ShownText(Spans(st)[n]) = ShownForUsd(ParseFloat(st.tokens[n].priceString), st.rate)

\* C23: each key of the magnitude table (hundred, thousand, k, million, m,
\* billion, b, trillion, t), in any letter case, is found by the scan as the
\* magnitude word of its token and its multiplier is applied; a token without
\* a magnitude word has the value of its numeral
C23_EveryKeyRecognized ==
    /\ KeysApplied(MagnitudePrices)
    /\ \A k \in 1..Len(steps) :
          Len(Spans(steps[k])) = Len(steps[k].tokens) =>
              \A n \in 1..Len(Spans(steps[k])) : ShowsNumeral(steps[k], n)

\* variant A and the words of its pattern, variant B and the keys of its
\* pattern (all of its table but t)
C23_WordsOfA ==
    variant = "A" =>
        KeysApplied({p \in MagnitudePrices :
                        p.text \in {TxHundred, TxThousand, TxMillion, TxBillion, TxTrillion}})

C23_KeysOfB ==
    variant = "B" => KeysApplied({p \in MagnitudePrices : p.text # TxT})

\* no token of the iteration has a magnitude word, and what was converted
\* shows the amount of that many US dollars
NoMultiplier(st, value) ==
    /\ \A n \in 1..Len(st.tokens) : st.tokens[n].magnitudeWord = <<>>
    /\ \A n \in 1..Len(Spans(st)) : ShownText(Spans(st)[n]) = ShownForUsd(value, st.rate)

\* C24: a magnitude suffix that follows the last digit without a delimiter
\* between them is not taken as a magnitude: "$5k" and "$5thousand" give no
\* token with a magnitude word and no amount other than that of 5 dollars
C24_GluedSuffixIgnored ==
    \A k \in 1..Len(steps) :
        (steps[k].scanned /\ steps[k].text \in {TxGluedK, TxGluedWord}) =>
            NoMultiplier(steps[k], Dec(5, 0))

\* the variant whose pattern has no magnitude words
C24_GluedSuffixIgnoredC == variant = "C" => C24_GluedSuffixIgnored

(***************************************************************************)
(* The rate of a pass                                                      *)
(***************************************************************************)
\* C25: a rate that is not positive converts nothing: no iteration of a pass
\* made with a rate of zero or less puts an element into the document that
\* shows an amount of satoshis or of bitcoin
C25_NoAmountWithoutRate ==
    \A k \in 1..Len(steps) :
        steps[k].rate <= 0 =>
            \A n \in 1..Len(Spans(steps[k])) :
                Unit(ShownText(Spans(steps[k])[n])) = "none"

\* the variant whose rate provider returns positive rates only
C25_NoAmountWithoutRateC == variant = "C" => C25_NoAmountWithoutRate

\* the token lies in the text where its offset says
InPlace(text, m) ==
    /\ m.index >= 1
    /\ m.index + Len(m.fullMatch) - 1 <= Len(text)
    /\ m.fullMatch = Substring(text, m.index - 1, m.index - 1 + Len(m.fullMatch))

\* C26: the tokens of one scan of a text node lie in the text from left to
\* right and do not overlap: each token ends at or before the offset where
\* the next one starts
C26_TokensInOrder ==
    \A k \in 1..Len(steps) :
        /\ \A n \in 1..Len(steps[k].tokens) : InPlace(steps[k].text, steps[k].tokens[n])
        /\ \A n \in 1..(Len(steps[k].tokens) - 1) :
              steps[k].tokens[n].index + Len(steps[k].tokens[n].fullMatch)
                 <= steps[k].tokens[n + 1].index

\* a node with two tokens has been spliced
C26_Witness ==
    \E k \in 1..Len(steps) :
        /\ Len(steps[k].tokens) = 2
        /\ steps[k].replaced
        /\ steps[k].tokens[1].index + Len(steps[k].tokens[1].fullMatch)
              < steps[k].tokens[2].index

\* C27: the resume offset of the pattern is 0 whenever the scan of a text
\* node starts, whatever the nodes scanned before it held: each scan finds
\* the tokens of its text from the leftmost on, and the same text scanned
\* twice gives the same tokens
C27_ScanStartsAtZero ==
    /\ lastIndex = 0
    /\ \A k \in 1..Len(steps) :
          steps[k].scanned =>
              /\ steps[k].tokens = Parsed(steps[k])
              /\ \A j \in 1..Len(steps) :
                    (steps[j].scanned /\ steps[j].text = steps[k].text) =>
                        steps[j].tokens = steps[k].tokens

\* in one pass a text with tokens was scanned right after a node with the
\* same text, and the tokens of the first were found again
C27_Witness ==
    \E k \in 2..Len(steps) :
        /\ steps[k].pass = steps[k - 1].pass
        /\ steps[k - 1].scanned /\ steps[k - 1].tokens # <<>>
        /\ steps[k].scanned /\ steps[k].tokens = steps[k - 1].tokens
        /\ steps[k].text = steps[k - 1].text
        /\ lastIndex = 0

(***************************************************************************)
(* The stored preference and the badges                                    *)
(***************************************************************************)
RECURSIVE NegatedTimes(_, _)
NegatedTimes(enabled, n) ==
    IF n = 0 THEN enabled ELSE Negated(NegatedTimes(enabled, n - 1))

\* the runs of action.onClicked
Clicks == {h \in DOMAIN handlers : handlers[h].kind = "click"}

\* every click handler that began has run to its end
ClicksCompleted == \A h \in Clicks : handlers[h].pc = "done"

\* C28: after n click handlers have run to completion, whatever the order of
\* their storage reads and writes, the stored isEnabled is the initial value
\* negated n times
C28_EachClickFlipsOnce ==
    ClicksCompleted => isEnabled = NegatedTimes(initialEnabled, Cardinality(Clicks))

\* C28, the part that holds: when every click handler read what the click
\* before it had stored, the stored isEnabled is the initial value negated
\* once per click
C28_SerialClicksFlip ==
    (/\ ClicksCompleted
     /\ \A h \in Clicks, k \in Clicks :
            (h < k /\ ~\E j \in Clicks : h < j /\ j < k) =>
                handlers[k].read = Negated(handlers[h].read))
        => isEnabled = NegatedTimes(initialEnabled, Cardinality(Clicks))

\* no run of a background listener is in flight
Quiescent == \A h \in DOMAIN handlers : handlers[h].pc \in {"idle", "done"}

\* the badge of the tab says what is stored
BadgeAgrees(tab) == (badge[tab] = "ON") <=> (isEnabled = "true")

\* C29: when no background handler is in flight, the badge of every tab a
\* created, updated or click handler has set shows ON exactly when the stored
\* isEnabled is true
C29_BadgesShowPreference ==
    Quiescent => \A tab \in Tabs : badge[tab] # "" => BadgeAgrees(tab)

\* C29, the part that holds: after the run of one listener alone, the badge
\* it set agrees with the stored isEnabled
C29_OneRunAgrees ==
    (Quiescent /\ handlers[MaxHandlers].pc = "idle" /\ MaxHandlers > 1) =>
        \A tab \in Tabs : badge[tab] # "" => BadgeAgrees(tab)

====
